---------------------------- MODULE Spec2Model ----------------------------
(***************************************************************************)
(* Alpha-K: the staged candidate-evaluation pipeline of woorung-gaksi.     *)
(*                                                                         *)
(*   Phase 1  RegimeGate      (rules/01_market_regime.md)                  *)
(*   Phase 2  SectorScreener  (rules/02_sector_rotation.md)                *)
(*   Phase 3  Deep dive       (workflows/04_main_pipeline.md, Phase 3)     *)
(*   Phase 4  Aggregator      (workflows/04_main_pipeline.md, Phase 4)     *)
(*   Phase 5  RiskPlanner     (rules/06_risk_management.md)                *)
(*                                                                         *)
(* Units.  A bet size, an allocation and a profit trigger are whole        *)
(* percents (100 = 1.0), as the rule files write them.  The FX/index       *)
(* correlation is in hundredths (20 = 0.2).  Prices and ATR are whole      *)
(* currency units.  The blended average entry price of a pyramided         *)
(* position and its stop are fractions num / den, compared by cross        *)
(* multiplication, so that no rounding enters.  A composite score is in    *)
(* tenths of a point.                                                      *)
(***************************************************************************)
EXTENDS Integers, Sequences, FiniteSets, TLC

VARIABLES
    snapshot,   \* the MarketSnapshot of the run
    decision,   \* the RegimeDecision, NoDecision until RegimeGate has run
    pc,         \* runPipeline: the phase the run is in
    request,    \* runPipeline: [force, tickers] of the call
    calls,      \* how often each phase's entry point was invoked
    candidates, \* the tickers handed to phase 3
    tasks,      \* phase 3: the state of each (ticker, evaluator) task
    results,    \* phase 3: the assessments the finished tasks returned
    composite,  \* phase 4: [ranked, discards], NoComposite before
    plans,      \* phase 5: the TradePlan of each ranked ticker planned
    report,     \* the Report of the run, NoReport before
    plan,       \* RiskPlanner: the TradePlan last planned, NoPlan before
    position,   \* RiskPlanner: the pyramided position opened on the plan
    feed,       \* what the data sources of the run return, per collaborator
    sectors,    \* phase 2: the SectorCandidates SectorScreener retained
    fundamentals, \* phase 3: the FundamentalAssessment of each candidate
    now,        \* core-gateway: the clock, in ticks
    issued,     \* core-gateway: the token strings GenerateToken returned
    validation, \* core-gateway: the last result of ValidateToken
    response,   \* core-gateway: the last response of a protected route
    flowAssessment, \* FlowEvaluator: the bundle read and its FlowAssessment
    bot,        \* telegram: the Bot and the process it runs in
    inbox,      \* telegram: the updates still in the updates channel
    handlers,   \* telegram: the handleMessage goroutines, by update ID
    outbox,     \* telegram: what api.Send has sent, in order
    asks,       \* telegram: the calls of service.Ask so far
    session,    \* CLI: the session file, [exists, data]
    history,    \* CLI: the commands run so far and what each ask met
    exchange    \* agent: the last request to POST /api/v1/ask end to end

regimeVars == <<snapshot, decision>>

pipeVars == <<pc, request, calls, candidates, tasks, results, composite,
              plans, report, feed, sectors, fundamentals>>

riskVars == <<plan, position>>

authVars == <<now, issued, validation, response>>

flowVars == <<flowAssessment>>

clientVars == <<bot, inbox, handlers, outbox, asks, session, history,
                exchange>>

vars == <<snapshot, decision, pc, request, calls, candidates, tasks, results,
          composite, plans, report, plan, position, feed, sectors,
          fundamentals, now, issued, validation, response, flowAssessment,
          bot, inbox, handlers, outbox, asks, session, history, exchange>>

----------------------------------------------------------------------------
(* Phase 1: RegimeGate                                                     *)

\* ADR < 75: panic / oversold.
OversoldADR == 75

\* ADR > 120: overbought.
OverboughtADR == 120

\* Bet size 100%.
FullBet == 100

\* Current V-KOSPI > previous V-KOSPI * 1.05, in percent.
VolSpikePct == 105

\* Correlation > 0.2, in hundredths.
DecouplingCorr == 20

\* Reduce bet size by 50%.
DecouplingCutPct == 50

\* How far around each threshold the snapshots of the model reach.
Spread == 1

NoDecision == [regime |-> "NONE", multiplier |-> 0]

NoCalls ==
    [regime |-> 0, sectors |-> 0, evaluators |-> 0, aggregator |-> 0,
     planner |-> 0]

NoReport == [built |-> FALSE]

NoFeed ==
    [benchmark |-> [ret1w |-> 0, ret1m |-> 0, ret3m |-> 0],
     sectorSeries |-> <<>>,
     members |-> <<>>,
     returns |-> <<>>,
     failing |-> {},
     contexts |-> <<>>]

NoValidation == [called |-> FALSE]

NoResponse == [status |-> 0]

NoFlowAssessment == [assessed |-> FALSE]

NoBot == [env |-> <<>>, allowedChatID |-> 0, running |-> FALSE, denied |-> {}]

NoSession == [exists |-> FALSE, data |-> ""]

NoExchange == [served |-> FALSE]

\* The Go clients of the gateway before anything has run.
ClientsIdle ==
    /\ bot = NoBot
    /\ inbox = <<>>
    /\ handlers = <<>>
    /\ outbox = <<>>
    /\ asks = {}
    /\ session = NoSession
    /\ history = <<>>
    /\ exchange = NoExchange

BreadthValues ==
    ((OversoldADR - Spread) .. (OversoldADR + Spread))
        \cup ((OverboughtADR - Spread) .. (OverboughtADR + Spread))

VolPairs ==
    {<<100 + d, 100>> : d \in {0, 10} \cup ((5 - Spread) .. (5 + Spread))}
        \cup {<<20 + d, 20>> : d \in 0 .. (1 + Spread)}

IndexPairs == {<<2500 + d, 2500>> : d \in (0 - Spread) .. Spread}

CorrValues ==
    {-100, 0, 100} \cup ((DecouplingCorr - Spread) .. (DecouplingCorr + Spread))

Snapshots ==
    {[breadth |-> b, vol |-> v[1], volPrev |-> v[2],
      index |-> i[1], indexMA20 |-> i[2], fxCorr |-> c] :
        b \in BreadthValues, v \in VolPairs, i \in IndexPairs, c \in CorrValues}

\* Faulty variant: the spike is measured in index points, not in percent.
HardStopInPoints(s) ==
    /\ s.vol > s.volPrev + 5
    /\ s.index < s.indexMA20

\* IF (Current V-KOSPI > Previous V-KOSPI * 1.05) AND (KOSPI Index < 20MA)
HardStop(s) ==
    /\ 100 * s.vol > VolSpikePct * s.volPrev
    /\ s.index < s.indexMA20

\* Faulty variant: a correlation of exactly 0.2 counts as decoupling.
DecoupledInclusive(s) == s.fxCorr >= DecouplingCorr

\* IF Correlation > 0.2 (Positive Correlation): Market is decoupling.
Decoupled(s) == s.fxCorr > DecouplingCorr

\* Faulty variant: the upper boundary 120 counts as overbought.
BreadthMultiplierExclusive(r) ==
    IF r < OversoldADR THEN FullBet
    ELSE IF r < OverboughtADR THEN FullBet
    ELSE 0

\* Faulty variant: the oversold and the overbought bet sizes are swapped.
BreadthMultiplierSwapped(r) ==
    IF r < OversoldADR THEN 0
    ELSE IF r <= OverboughtADR THEN FullBet
    ELSE FullBet

\* The ADR thresholds: the bet size of each band, before any other rule.
BreadthMultiplier(r) ==
    IF r < OversoldADR THEN FullBet
    ELSE IF r <= OverboughtADR THEN FullBet
    ELSE 0

\* The decoupling rule: reduce the bet size by 50%.
Halve(m) == (m * DecouplingCutPct) \div 100

\* The bet-size multiplier of a snapshot.
Multiplier(s) ==
    IF HardStop(s) THEN 0
    ELSE IF Decoupled(s) THEN Halve(BreadthMultiplier(s.breadth))
    ELSE BreadthMultiplier(s.breadth)

\* The market status of a snapshot.
Regime(s) ==
    IF HardStop(s) THEN "CRASH"
    ELSE IF s.breadth > OverboughtADR THEN "BEAR"
    ELSE IF s.breadth < OversoldADR THEN "BULL"
    ELSE "NORMAL"

\* RegimeGate.evaluate
Evaluate(s) == [regime |-> Regime(s), multiplier |-> Multiplier(s)]

----------------------------------------------------------------------------
(* Phase 2: SectorScreener                                                 *)

\* Selection: only the top 3 sectors are targeted.
TopSectors == 3

\* Alpha = (Sector Return - KOSPI Return), in whole percents.
Alpha(sectorReturn, benchmarkReturn) == sectorReturn - benchmarkReturn

\* Faulty variant: the one-week and the one-month weights are swapped.
RSScoreSwapped(s, bench) ==
    3 * Alpha(s.ret1w, bench.ret1w) + 5 * Alpha(s.ret1m, bench.ret1m)
        + 2 * Alpha(s.ret3m, bench.ret3m)

\* RS_Score = (0.5 * 1W_Alpha) + (0.3 * 1M_Alpha) + (0.2 * 3M_Alpha), in
\* tenths of a percent.
RSScore(s, bench) ==
    5 * Alpha(s.ret1w, bench.ret1w) + 3 * Alpha(s.ret1m, bench.ret1m)
        + 2 * Alpha(s.ret3m, bench.ret3m)

\* The SectorCandidate of a sector series.
SectorCandidate(s, bench) ==
    [id |-> s.id,
     score |-> RSScore(s, bench),
     alpha1m |-> Alpha(s.ret1m, bench.ret1m)]

\* Sort descending by score; ties by the higher 1-month alpha, then by the
\* identifier.
SectorBefore(c, d) ==
    \/ c.score > d.score
    \/ c.score = d.score /\ c.alpha1m > d.alpha1m
    \/ c.score = d.score /\ c.alpha1m = d.alpha1m /\ c.id < d.id

\* A stable sort of the list, one element inserted at a time.
RECURSIVE InsertSector(_, _)
InsertSector(sorted, c) ==
    IF sorted = <<>> THEN <<c>>
    ELSE IF SectorBefore(c, Head(sorted)) THEN <<c>> \o sorted
    ELSE <<Head(sorted)>> \o InsertSector(Tail(sorted), c)

RECURSIVE SortSectors(_)
SortSectors(seq) ==
    IF seq = <<>> THEN <<>>
    ELSE InsertSector(SortSectors(SubSeq(seq, 1, Len(seq) - 1)), seq[Len(seq)])

\* SectorScreener.screen
Screen(series, bench) ==
    LET sorted == SortSectors([i \in DOMAIN series |->
                                  SectorCandidate(series[i], bench)])
    IN  SubSeq(sorted, 1,
               IF Len(sorted) < TopSectors THEN Len(sorted) ELSE TopSectors)

\* The candidate tickers of the retained sectors: their members that pass
\* the trading-value / MA60 filter.
CandidatesOf(retained, members) ==
    UNION {members[retained[i].id] : i \in DOMAIN retained}

----------------------------------------------------------------------------
(* Phase 3: FundamentalEvaluator                                           *)

\* F-Score >= 7 (Pass).
FScorePass == 7

\* F-Score < 4 (Fail/Exclude).
FScoreExclude == 4

\* Relative PER < 0.8, in hundredths.
RelativePerMax == 80

\* PEG Ratio < 1.5, in hundredths.
PegMax == 150

\* The nine criteria, one point each.
Criteria == 1 .. 9

\* Piotroski F-Score: the number of criteria the record meets.
FScore(f) == Cardinality(f.met)

\* Relative PER < 0.8 AND PEG Ratio < 1.5
ValuationHolds(f) == f.relPer < RelativePerMax /\ f.peg < PegMax

\* DART risk check: the disclosures of the last 6 months are searched.
DisclosureWindow == 6

\* Overhang check: convertible bonds of 5% of the market capitalisation or
\* more.
OverhangWarnPct == 5

\* Blacklist keywords: unfaithful-disclosure corporation, designation as
\* management issue, embezzlement, breach of duty, audit opinion
\* disclaimed or qualified.
BlacklistCategories ==
    {"unfaithful disclosure", "management issue", "embezzlement",
     "breach of duty", "audit opinion"}

\* A disclosure is [category, age], the age in months before the as-of
\* date.
Blacklisted(f) ==
    \E d \in f.disclosures :
        d.category \in BlacklistCategories /\ d.age <= DisclosureWindow

\* Faulty variant: the F-Score is not looked at.
FundamentalVerdictValuationOnly(f) ==
    IF f.absent # {} THEN "FAIL"
    ELSE IF ValuationHolds(f) /\ ~Blacklisted(f) THEN "PASS" ELSE "FAIL"

\* Faulty variant: the F-Score is counted over the criteria whose inputs
\* are there.
FundamentalVerdictFromRemaining(f) ==
    IF FScore(f) < FScoreExclude THEN "FAIL"
    ELSE IF FScore(f) >= FScorePass /\ ValuationHolds(f) /\ ~Blacklisted(f)
         THEN "PASS"
    ELSE "FAIL"

\* Faulty variant: a strong record outweighs a blacklist disclosure.
FundamentalVerdictScoreFirst(f) ==
    IF f.absent # {} THEN "FAIL"
    ELSE IF FScore(f) < FScoreExclude THEN "FAIL"
    ELSE IF FScore(f) >= FScorePass /\ ValuationHolds(f)
              /\ (~Blacklisted(f) \/ FScore(f) = 9)
         THEN "PASS"
    ELSE "FAIL"

\* FundamentalEvaluator: Fundamental Score (Pass/Fail).  Without the inputs
\* of all nine criteria (f.absent: the criteria whose inputs are absent)
\* there is no F-Score and the candidate fails.
FundamentalVerdict(f) ==
    IF f.absent # {} THEN "FAIL"
    ELSE IF FScore(f) < FScoreExclude THEN "FAIL"
    ELSE IF FScore(f) >= FScorePass /\ ValuationHolds(f) /\ ~Blacklisted(f)
         THEN "PASS"
    ELSE "FAIL"

\* Why a record fails.
FundamentalReason(f) ==
    IF f.absent # {} THEN "insufficient data"
    ELSE IF Blacklisted(f) THEN "blacklist disclosure"
    ELSE IF FScore(f) < FScoreExclude THEN "F-score below 4"
    ELSE IF FScore(f) < FScorePass THEN "F-score below 7"
    ELSE IF ~ValuationHolds(f) THEN "valuation"
    ELSE ""

\* Overhang check: a warning.
FundamentalWarnings(f) ==
    IF f.overhang >= OverhangWarnPct
    THEN {"convertible-bond overhang"} ELSE {}

\* FundamentalEvaluator.assess: the FundamentalAssessment of a record.
Assess(f) ==
    [record |-> f,
     computed |-> f.absent = {},
     fscore |-> IF f.absent = {} THEN FScore(f) ELSE 0,
     verdict |-> FundamentalVerdict(f),
     reason |-> FundamentalReason(f),
     warnings |-> FundamentalWarnings(f)]

NoRecord ==
    [met |-> {}, absent |-> {}, relPer |-> 0, peg |-> 0, disclosures |-> {},
     overhang |-> 0]

NoFundamentals ==
    [record |-> NoRecord, computed |-> FALSE, fscore |-> 0,
     verdict |-> "NONE", reason |-> "", warnings |-> {}]

----------------------------------------------------------------------------
(* Phase 3: FlowEvaluator                                                  *)
(*                                                                         *)
(* A flow bundle is [slope, instBuy, retailBuy, days]: the slope of the    *)
(* cumulative non-arbitrage program net-buy curve, the buy volumes of the  *)
(* foreign / institutional and of the retail-dominant brokers, and for     *)
(* each of the trailing sessions the foreign and the institutional net     *)
(* flow.                                                                   *)

\* (Foreign/Inst Buy Volume) > (Retail Buy Volume * 2)
BrokerMultiple == 2

\* The last 5 trading days.
AccumulationSessions == 5

\* Net buying on 3 days or more.
AccumulationDays == 3

\* The cumulative program net-buy curve slopes upward.
ProgramPositive(f) == f.slope > 0

\* Faulty variant: twice the retail volume is enough.
BrokerPositiveInclusive(f) == f.instBuy >= f.retailBuy * BrokerMultiple

\* (Foreign/Inst Buy Volume) > (Retail Buy Volume * 2)
BrokerPositive(f) == f.instBuy > f.retailBuy * BrokerMultiple

\* The days of the trailing sessions on which institutional or foreign net
\* flow was positive.
AccumulationCount(f) ==
    Cardinality({i \in DOMAIN f.days :
                    f.days[i].foreign > 0 \/ f.days[i].inst > 0})

AccumulationPositive(f) == AccumulationCount(f) >= AccumulationDays

\* The number of positive signals.
FlowSignals(f) ==
    (IF ProgramPositive(f) THEN 1 ELSE 0)
        + (IF BrokerPositive(f) THEN 1 ELSE 0)
        + (IF AccumulationPositive(f) THEN 1 ELSE 0)

\* Flow Score (High/Medium/Low).
FlowLevel(f) ==
    IF FlowSignals(f) = 3 THEN "HIGH"
    ELSE IF FlowSignals(f) = 2 THEN "MEDIUM"
    ELSE "LOW"

\* FlowEvaluator.assess: the FlowAssessment of a bundle.
AssessFlow(f) ==
    [assessed |-> TRUE,
     bundle |-> f,
     slopePositive |-> ProgramPositive(f),
     brokerPositive |-> BrokerPositive(f),
     accumulationDays |-> AccumulationCount(f),
     level |-> FlowLevel(f)]

----------------------------------------------------------------------------
(* Phase 4: Aggregator / Ranker                                            *)

\* Discard if Technical Score < 70.
MinTechScore == 70

\* Pick Top 3 Stocks.
TopN == 3

NoReason == ""

NoComposite == [ranked |-> <<>>, discards |-> <<>>, done |-> FALSE]

\* Faulty variant: the technical score filter is left out.
DiscardReasonNoTech(a) ==
    IF a.fund = "FAIL" THEN "fundamental verdict FAIL"
    ELSE IF a.flow = "LOW" THEN "flow level LOW"
    ELSE NoReason

\* Faulty variant: the flow filter is left out.
DiscardReasonNoFlow(a) ==
    IF a.fund = "FAIL" THEN "fundamental verdict FAIL"
    ELSE IF a.tech < MinTechScore THEN "technical score below 70"
    ELSE NoReason

\* Filtering logic: Fundamental == Fail, Technical Score < 70, Flow == Low.
DiscardReason(a) ==
    IF a.fund = "FAIL" THEN "fundamental verdict FAIL"
    ELSE IF a.tech < MinTechScore THEN "technical score below 70"
    ELSE IF a.flow = "LOW" THEN "flow level LOW"
    ELSE NoReason

\* Flow Score as a number: HIGH 100, MEDIUM 50.
FlowNumeric(level) ==
    IF level = "HIGH" THEN 100 ELSE IF level = "MEDIUM" THEN 50 ELSE 0

\* Fundamental Score as a number: PASS 100.
FundNumeric(verdict) == IF verdict = "PASS" THEN 100 ELSE 0

\* Faulty variant: the weights of the technical and the flow score are
\* swapped.
CompositeFlowFirst(a) ==
    3 * a.tech + 5 * FlowNumeric(a.flow) + 2 * FundNumeric(a.fund)

\* Technical * 0.5 + Flow * 0.3 + Fundamental * 0.2, in tenths of a point.
Composite(a) ==
    5 * a.tech + 3 * FlowNumeric(a.flow) + 2 * FundNumeric(a.fund)

CompositeScore(t, a) ==
    [ticker |-> t, tech |-> a.tech, fund |-> a.fund, flow |-> a.flow,
     score |-> Composite(a)]

\* Sort descending by composite, ties by ticker.
RanksBefore(c, d) ==
    \/ c.score > d.score
    \/ c.score = d.score /\ c.ticker < d.ticker

First(S) == CHOOSE c \in S : \A d \in S \ {c} : RanksBefore(c, d)

RECURSIVE SortRanked(_)
SortRanked(S) ==
    IF S = {} THEN <<>> ELSE <<First(S)>> \o SortRanked(S \ {First(S)})

Head3(seq) == SubSeq(seq, 1, IF Len(seq) < TopN THEN Len(seq) ELSE TopN)

\* Aggregator.rank over the assessments res (ticker -> assessment).
Rank(res) ==
    LET survivors == {t \in DOMAIN res : DiscardReason(res[t]) = NoReason}
    IN  [ranked |->
             Head3(SortRanked({CompositeScore(t, res[t]) : t \in survivors})),
         discards |->
             [t \in DOMAIN res \ survivors |-> DiscardReason(res[t])],
         done |-> TRUE]

----------------------------------------------------------------------------
(* Phase 5: RiskPlanner                                                    *)

\* Stop Price = Average Entry Price - (3 * ATR(14))
AtrMultiple == 3

\* Potential Reward / Risk >= 2.0
MinRewardRisk == 2

\* Faulty variant: the largest allocation comes first.
PyramidingFrontLoaded ==
    <<[allocation |-> 40, trigger |-> 0],
      [allocation |-> 30, trigger |-> 3],
      [allocation |-> 30, trigger |-> 5]>>

\* Entry 1: 30% (initial), Entry 2: 30% (profit > +3%), Entry 3: 40% (> +5%).
PyramidingSchedule ==
    <<[allocation |-> 30, trigger |-> 0],
      [allocation |-> 30, trigger |-> 3],
      [allocation |-> 40, trigger |-> 5]>>

NoPlan == [verdict |-> "NONE"]

NoPosition == [entries |-> 0]

\* Faulty variant: the ATR multiple is left out.
StopPriceOneAtr(entry, atr) == entry - atr

\* Stop Price = Average Entry Price - (3 * ATR(14)), for a whole price.
StopPrice(entry, atr) == entry - AtrMultiple * atr

\* Faulty variant: the ratio is taken the wrong way round (risk / reward <= 2.0).
MeetsRewardRiskInverted(reward, risk) == MinRewardRisk * reward >= risk

\* Potential Reward (to Next Resistance) / Risk (to Stop Price) >= 2.0
MeetsRewardRisk(reward, risk) == reward >= MinRewardRisk * risk

\* RiskPlanner.plan
Plan(ticker, entry, resistance, atr) ==
    LET stop == StopPrice(entry, atr)
        reward == resistance - entry
        risk == entry - stop
        ok == MeetsRewardRisk(reward, risk)
    IN  [ticker |-> ticker,
         entry |-> entry,
         atr |-> atr,
         stop |-> stop,
         target |-> resistance,
         reward |-> reward,
         risk |-> risk,
         pyramiding |-> PyramidingSchedule,
         verdict |-> IF ok THEN "ACCEPT" ELSE "REJECT",
         reason |-> IF ok THEN "" ELSE "R/R below threshold"]

\* A price that need not be whole: num / den, den > 0.
Rat(num, den) == [num |-> num, den |-> den]

RatLeq(a, b) == a.num * b.den <= b.num * a.den

\* Stop Price = Average Entry Price - (3 * ATR(14)), for a blended average.
FormulaStop(avg, atr) == Rat(avg.num - AtrMultiple * atr * avg.den, avg.den)

\* Faulty variant: the stop is recomputed and the previous stop forgotten.
TrailStopRecomputed(prev, avg, atr) == FormulaStop(avg, atr)

\* The stop after an additional entry: the formula's, never below the
\* stop before it (trailing stop).
TrailStop(prev, avg, atr) ==
    IF RatLeq(FormulaStop(avg, atr), prev) THEN prev ELSE FormulaStop(avg, atr)

\* The shares entry k of the schedule buys at a price out of a budget.
SharesOf(k, budget, price) ==
    ((budget * PyramidingSchedule[k].allocation) \div 100) \div price

\* Unrealized profit exceeds +pct%: price > average entry * (1 + pct/100).
ProfitExceeds(pos, price, pct) ==
    100 * price * pos.shares > (100 + pct) * pos.cost

\* Entry 1 of the schedule, at the plan's entry price and stop.
FirstEntry(p, budget) ==
    [entries |-> 1,
     budget |-> budget,
     shares |-> SharesOf(1, budget, p.entry),
     cost |-> SharesOf(1, budget, p.entry) * p.entry,
     atr |-> p.atr,
     stop |-> Rat(p.stop, 1)]

\* Entry 2 or 3 of the schedule at a price: the average entry price is
\* blended and the stop recomputed with the ATR(14) of that day.
AddEntry(pos, price, atr) ==
    LET k == pos.entries + 1
        shares == pos.shares + SharesOf(k, pos.budget, price)
        cost == pos.cost + SharesOf(k, pos.budget, price) * price
    IN  [entries |-> k,
         budget |-> pos.budget,
         shares |-> shares,
         cost |-> cost,
         atr |-> atr,
         stop |-> TrailStop(pos.stop, Rat(cost, shares), atr)]

----------------------------------------------------------------------------
(* RiskPlanner on its own: one plan, then the entries of its schedule.     *)

\* The ATR(14) values of the model: 0 (a series that did not move), 1, and
\* 100 .. 100 * AtrSteps.
AtrSteps == 3

\* The fill prices of the model: 10000 + 100 * (0 .. PriceSteps).
PriceSteps == 8

\* A ticker is its six-digit code read as a number (005930 is 5930), so
\* that the lexical order of the codes is the order of the numbers.
RiskTickers == {660, 5930}

AtrValues == {0, 1} \cup {100 * k : k \in 1 .. AtrSteps}

EntryPrices == {10000, 10500}

FillPrices == {10000 + 100 * k : k \in 0 .. PriceSteps}

\* Around the entry, and around the level where reward = 2 * risk.
ResistanceLevels(entry, atr) ==
    {entry - 100, entry, entry + 1000, entry + 2200}
        \cup {entry + 2 * 3 * atr + d : d \in {-1, 0, 1}}

Budgets == {1000000}

InitRisk ==
    /\ snapshot \in {s \in Snapshots : /\ s.breadth = OversoldADR
                                       /\ s.fxCorr \in {0, 100}
                                       /\ s.vol = 100 /\ s.volPrev = 100
                                       /\ s.index = s.indexMA20}
    /\ decision = Evaluate(snapshot)
    /\ pc = "idle"
    /\ request = [force |-> FALSE, tickers |-> {}]
    /\ calls = NoCalls
    /\ candidates = {}
    /\ tasks = <<>>
    /\ results = <<>>
    /\ composite = NoComposite
    /\ plans = <<>>
    /\ report = NoReport
    /\ plan = NoPlan
    /\ position = NoPosition
    /\ feed = NoFeed
    /\ sectors = <<>>
    /\ fundamentals = <<>>
    /\ now = 0
    /\ issued = {}
    /\ validation = NoValidation
    /\ response = NoResponse
    /\ flowAssessment = NoFlowAssessment
    /\ ClientsIdle

PlanTrade ==
    /\ plan = NoPlan
    /\ \E t \in RiskTickers, e \in EntryPrices, a \in AtrValues :
           \E r \in ResistanceLevels(e, a) : plan' = Plan(t, e, r, a)
    /\ UNCHANGED <<regimeVars, pipeVars, position, authVars, flowVars, clientVars>>

OpenPosition ==
    /\ plan.verdict = "ACCEPT"
    /\ position = NoPosition
    /\ \E b \in Budgets :
           /\ SharesOf(1, (b * decision.multiplier) \div 100, plan.entry) > 0
           /\ position' = FirstEntry(plan, (b * decision.multiplier) \div 100)
    /\ UNCHANGED <<regimeVars, pipeVars, plan, authVars, flowVars, clientVars>>

Pyramid ==
    /\ position.entries \in 1 .. (Len(PyramidingSchedule) - 1)
    /\ \E price \in FillPrices, a \in AtrValues :
           /\ ProfitExceeds(position, price,
                            PyramidingSchedule[position.entries + 1].trigger)
           /\ SharesOf(position.entries + 1, position.budget, price) > 0
           /\ position' = AddEntry(position, price, a)
    /\ UNCHANGED <<regimeVars, pipeVars, plan, authVars, flowVars, clientVars>>

NextRisk == PlanTrade \/ OpenPosition \/ Pyramid

SpecRisk == InitRisk /\ [][NextRisk]_vars

----------------------------------------------------------------------------
(* RegimeGate.evaluate on its own: every snapshot, evaluated once.         *)

InitRegime ==
    /\ snapshot \in Snapshots
    /\ decision = NoDecision
    /\ pc = "idle"
    /\ request = [force |-> FALSE, tickers |-> {}]
    /\ calls = NoCalls
    /\ candidates = {}
    /\ tasks = <<>>
    /\ results = <<>>
    /\ composite = NoComposite
    /\ plans = <<>>
    /\ report = NoReport
    /\ plan = NoPlan
    /\ position = NoPosition
    /\ feed = NoFeed
    /\ sectors = <<>>
    /\ fundamentals = <<>>
    /\ now = 0
    /\ issued = {}
    /\ validation = NoValidation
    /\ response = NoResponse
    /\ flowAssessment = NoFlowAssessment
    /\ ClientsIdle

EvaluateRegime ==
    /\ decision = NoDecision
    /\ decision' = Evaluate(snapshot)
    /\ UNCHANGED <<snapshot, pipeVars, riskVars, authVars, flowVars, clientVars>>

NextRegime == EvaluateRegime

SpecRegime == InitRegime /\ [][NextRegime]_vars

----------------------------------------------------------------------------
(* runPipeline: the five phases in order                                   *)

\* The configurable limit on evaluator tasks running at once.
MaxWorkers == 2

Evaluators == <<"tech", "fund", "flow">>

TechScores == {69, 70, 90}

FundVerdicts == {"PASS", "FAIL"}

\* The financial records of the runs: F-Score 3, 6 and 9 on a cheap stock
\* with no disclosure risk.
PipelineFundamentals ==
    {[met |-> 1 .. k, absent |-> {}, relPer |-> 70, peg |-> 100,
      disclosures |-> {}, overhang |-> 0] :
        k \in {3, 6, 9}}

FlowLevels == {"LOW", "MEDIUM", "HIGH"}

Assessments ==
    [tech : TechScores, fund : FundVerdicts, flow : FlowLevels]

PipelineTickers == {660, 5930}

\* One crash, one overbought and one normal market.
PipelineSnapshots ==
    {s \in Snapshots :
        /\ s.fxCorr = 0
        /\ s.index = s.indexMA20 - 1
        /\ s.volPrev = 100
        /\ \/ s.vol = 110 /\ s.breadth = OversoldADR
           \/ s.vol = 100 /\ s.breadth \in {OversoldADR, OverboughtADR + 1}}

\* The calls of runPipeline: with or without the force_analysis override,
\* with an explicit ticker list or none ({}).
Requests == [force : BOOLEAN, tickers : {{}, {660}, {660, 5930}}]

\* The entry context of a ticker's plan: entry price, next resistance and
\* ATR(14), as resolved from its bundle.
EntryContexts ==
    {[entry |-> 10000, resistance |-> 10000 + d, atr |-> 200] :
        d \in {1000, 1200, 2200}}

TaskIds(cands) == {<<t, e>> : t \in cands, e \in 1 .. Len(Evaluators)}

\* Faulty variant: only CRASH ends the run.
TerminatesOnCrashOnly(regime) == regime = "CRASH"

\* IF Market Status == "CRASH" or "BEAR": Terminate workflow.
Terminates(regime) == regime \in {"CRASH", "BEAR"}

Unfinished(tk) == {id \in DOMAIN tk : tk[id] \in {"idle", "running"}}

Running(tk) == {id \in DOMAIN tk : tk[id] = "running"}

\* Tasks are submitted in the order of the candidates and, for one
\* candidate, technical, fundamental, flow.
SubmittedBefore(a, b) == a[1] < b[1] \/ (a[1] = b[1] /\ a[2] < b[2])

NextToDispatch(tk) ==
    {id \in DOMAIN tk :
        /\ tk[id] = "idle"
        /\ \A other \in DOMAIN tk :
               (tk[other] = "idle" /\ other # id) => SubmittedBefore(id, other)}

\* What an evaluator can read off its bundle: a technical score, a
\* financial record, a flow level.
Outcomes(e) ==
    IF Evaluators[e] = "tech" THEN TechScores
    ELSE IF Evaluators[e] = "fund" THEN PipelineFundamentals
    ELSE FlowLevels

\* The assessment as it stands once evaluator e has returned v.
Assessed(a, e, v) ==
    IF Evaluators[e] = "fund"
    THEN [a EXCEPT !.fund = FundamentalVerdict(v)]
    ELSE [a EXCEPT ![Evaluators[e]] = v]

\* The benchmark returns and the sector series of the runs.
PipelineBenchmark == [ret1w |-> 1, ret1m |-> 2, ret3m |-> 3]

PipelineSectors ==
    <<[id |-> 1, ret1w |-> 3, ret1m |-> 4, ret3m |-> 5]>>

\* The feed of a run whose data sources may return anything, or fail.
OpenFeed(series, members, tickers) ==
    [benchmark |-> PipelineBenchmark,
     sectorSeries |-> series,
     members |-> members,
     returns |-> [id \in TaskIds(tickers) |-> Outcomes(id[2])],
     failing |-> TaskIds(tickers),
     contexts |-> [t \in tickers |-> EntryContexts]]

\* Faulty variant: a candidate counts as complete once none of its
\* evaluators is pending, whether they returned or failed.
CompleteOrFailed(cands, tk) ==
    {t \in cands :
        \A e \in 1 .. Len(Evaluators) : tk[<<t, e>>] \in {"done", "failed"}}

\* The candidates whose three evaluators all returned.
Complete(cands, tk) ==
    {t \in cands : \A e \in 1 .. Len(Evaluators) : tk[<<t, e>>] = "done"}

\* Why a candidate with an evaluator that did not return is excluded.
ExclusionReason(t, tk) ==
    IF \E e \in 1 .. Len(Evaluators) : tk[<<t, e>>] = "failed"
    THEN "evaluator failed"
    ELSE "timed out"

\* Phase 4 of a run: the complete candidates are ranked, the others are
\* excluded with a reason.
Aggregated(cands, tk, res) ==
    LET complete == Complete(cands, tk)
        ranking == Rank([t \in complete |-> res[t]])
    IN  [ranked |-> ranking.ranked,
         discards |->
             [t \in (cands \ complete) \cup DOMAIN ranking.discards |->
                 IF t \in complete THEN ranking.discards[t]
                 ELSE ExclusionReason(t, tk)],
         done |-> TRUE]

RankedTickers(comp) == {comp.ranked[i].ticker : i \in DOMAIN comp.ranked}

\* The Report: the regime decision, the selected sectors, the ranked
\* CompositeScores and the TradePlans with verdict ACCEPT, in rank order.
BuildReport(dec, sec, comp, pl) ==
    [built |-> TRUE,
     regime |-> dec,
     sectors |-> sec,
     ranked |-> comp.ranked,
     plans |-> SelectSeq([i \in DOMAIN comp.ranked |-> pl[comp.ranked[i].ticker]],
                         LAMBDA p : p.verdict = "ACCEPT"),
     rejected |-> {t \in DOMAIN pl : pl[t].verdict = "REJECT"}]

InitPipeline ==
    /\ snapshot \in PipelineSnapshots
    /\ decision = NoDecision
    /\ pc = "regime"
    /\ request \in Requests
    /\ calls = NoCalls
    /\ candidates = {}
    /\ tasks = <<>>
    /\ results = <<>>
    /\ composite = NoComposite
    /\ plans = <<>>
    /\ report = NoReport
    /\ plan = NoPlan
    /\ position = NoPosition
    /\ \E m \in SUBSET PipelineTickers :
           /\ request.tickers # {} => m = PipelineTickers
           /\ feed = OpenFeed(PipelineSectors, [i \in {1} |-> m],
                              PipelineTickers)
    /\ sectors = <<>>
    /\ fundamentals = <<>>
    /\ now = 0
    /\ issued = {}
    /\ validation = NoValidation
    /\ response = NoResponse
    /\ flowAssessment = NoFlowAssessment
    /\ ClientsIdle

\* Phase 1 without the override: RegimeGate decides go / no-go.
RegimeGate ==
    /\ pc = "regime"
    /\ ~request.force
    /\ decision' = Evaluate(snapshot)
    /\ calls' = [calls EXCEPT !.regime = @ + 1]
    /\ pc' = IF Terminates(Evaluate(snapshot).regime)
             THEN "terminated" ELSE "sectors"
    /\ UNCHANGED <<snapshot, request, candidates, tasks, results, composite,
                   plans, report, riskVars,
                   feed, sectors, fundamentals, authVars, flowVars, clientVars>>

\* Faulty variant: the override bypasses the filter in a BEAR market only;
\* a crash still ends the run.
BypassRegimeGateBearOnly ==
    /\ pc = "regime"
    /\ request.force
    /\ pc' = IF Regime(snapshot) = "CRASH" THEN "terminated" ELSE "sectors"
    /\ UNCHANGED <<regimeVars, request, calls, candidates, tasks, results,
                   composite, plans, report, riskVars,
                   feed, sectors, fundamentals, authVars, flowVars, clientVars>>

\* Phase 1 with force_analysis: the market regime filter is bypassed.
BypassRegimeGate ==
    /\ pc = "regime"
    /\ request.force
    /\ pc' = "sectors"
    /\ UNCHANGED <<regimeVars, request, calls, candidates, tasks, results,
                   composite, plans, report, riskVars,
                   feed, sectors, fundamentals, authVars, flowVars, clientVars>>

StartDeepDive(cands) ==
    /\ candidates' = cands
    /\ tasks' = [id \in TaskIds(cands) |-> "idle"]
    /\ results' = [t \in cands |-> [tech |-> 0, fund |-> "NONE", flow |-> "NONE"]]
    /\ fundamentals' = [t \in cands |-> NoFundamentals]
    /\ pc' = "deepdive"

\* Phase 2: SectorScreener hands over the candidates of the top sectors.
ScreenSectors ==
    /\ pc = "sectors"
    /\ request.tickers = {}
    /\ calls' = [calls EXCEPT !.sectors = @ + 1]
    /\ sectors' = Screen(feed.sectorSeries, feed.benchmark)
    /\ StartDeepDive(CandidatesOf(Screen(feed.sectorSeries, feed.benchmark),
                                  feed.members))
    /\ UNCHANGED <<regimeVars, request, composite, plans, report, riskVars,
                   feed, authVars, flowVars, clientVars>>

\* Phase 2 skipped: the caller named the tickers.
UseGivenTickers ==
    /\ pc = "sectors"
    /\ request.tickers # {}
    /\ StartDeepDive(request.tickers)
    /\ UNCHANGED <<regimeVars, request, calls, composite, plans, report,
                   riskVars, feed, sectors, authVars, flowVars, clientVars>>

\* Phase 3: the next task is handed to a free worker.
Dispatch ==
    /\ pc = "deepdive"
    /\ Cardinality(Running(tasks)) < MaxWorkers
    /\ \E id \in NextToDispatch(tasks) :
           tasks' = [tasks EXCEPT ![id] = "running"]
    /\ calls' = [calls EXCEPT !.evaluators = @ + 1]
    /\ UNCHANGED <<regimeVars, pc, request, candidates, results, composite,
                   plans, report, riskVars,
                   feed, sectors, fundamentals, authVars, flowVars, clientVars>>

\* Faulty variant: the evaluators share one result slot, that of the task
\* submitted last among those running.
FinishSharedSlot ==
    /\ pc = "deepdive"
    /\ \E id \in Running(tasks) : \E v \in feed.returns[id] :
           LET last == CHOOSE r \in Running(tasks) :
                           \A o \in Running(tasks) \ {r} : SubmittedBefore(o, r)
           IN  /\ tasks' = [tasks EXCEPT ![id] = "done"]
               /\ results' = [results EXCEPT ![last[1]] = Assessed(@, id[2], v)]
               /\ fundamentals' =
                      IF Evaluators[id[2]] = "fund"
                      THEN [fundamentals EXCEPT ![last[1]] = Assess(v)]
                      ELSE fundamentals
    /\ UNCHANGED <<regimeVars, pc, request, calls, candidates, composite,
                   plans, report, riskVars, feed, sectors, authVars, flowVars, clientVars>>

\* Phase 3: a running evaluator returns its assessment.
Finish ==
    /\ pc = "deepdive"
    /\ \E id \in Running(tasks) : \E v \in feed.returns[id] :
           /\ tasks' = [tasks EXCEPT ![id] = "done"]
           /\ results' = [results EXCEPT ![id[1]] = Assessed(@, id[2], v)]
           /\ fundamentals' =
                  IF Evaluators[id[2]] = "fund"
                  THEN [fundamentals EXCEPT ![id[1]] = Assess(v)]
                  ELSE fundamentals
    /\ UNCHANGED <<regimeVars, pc, request, calls, candidates, composite,
                   plans, report, riskVars, feed, sectors, authVars, flowVars, clientVars>>

\* Phase 3: a running evaluator fails (missing data, source unreachable).
Fail ==
    /\ pc = "deepdive"
    /\ \E id \in Running(tasks) \cap feed.failing :
           tasks' = [tasks EXCEPT ![id] = "failed"]
    /\ UNCHANGED <<regimeVars, pc, request, calls, candidates, results,
                   composite, plans, report, riskVars,
                   feed, sectors, fundamentals, authVars, flowVars, clientVars>>

\* Faulty variant: the timeout ends the run without a Report.
TimeoutFatal ==
    /\ pc = "deepdive"
    /\ Unfinished(tasks) # {}
    /\ tasks' = [id \in DOMAIN tasks |->
                    IF id \in Unfinished(tasks) THEN "timeout" ELSE tasks[id]]
    /\ pc' = "terminated"
    /\ UNCHANGED <<regimeVars, request, calls, candidates, results,
                   composite, plans, report, riskVars,
                   feed, sectors, fundamentals, authVars, flowVars, clientVars>>

\* The overall pipeline timeout: what is still pending is given up.
Timeout ==
    /\ pc = "deepdive"
    /\ Unfinished(tasks) # {}
    /\ tasks' = [id \in DOMAIN tasks |->
                    IF id \in Unfinished(tasks) THEN "timeout" ELSE tasks[id]]
    /\ UNCHANGED <<regimeVars, pc, request, calls, candidates, results,
                   composite, plans, report, riskVars,
                   feed, sectors, fundamentals, authVars, flowVars, clientVars>>

\* Faulty variant: Aggregator.rank starts without the join.
AggregateWithoutJoin ==
    /\ pc = "deepdive"
    /\ composite' = Aggregated(candidates, tasks, results)
    /\ calls' = [calls EXCEPT !.aggregator = @ + 1]
    /\ pc' = "plan"
    /\ UNCHANGED <<regimeVars, request, candidates, tasks, results, plans,
                   report, riskVars,
                   feed, sectors, fundamentals, authVars, flowVars, clientVars>>

\* Phase 4: the join, then Aggregator.rank.
Aggregate ==
    /\ pc = "deepdive"
    /\ Unfinished(tasks) = {}
    /\ composite' = Aggregated(candidates, tasks, results)
    /\ calls' = [calls EXCEPT !.aggregator = @ + 1]
    /\ pc' = "plan"
    /\ UNCHANGED <<regimeVars, request, candidates, tasks, results, plans,
                   report, riskVars,
                   feed, sectors, fundamentals, authVars, flowVars, clientVars>>

\* Phase 5: RiskPlanner.plan for the next ranked ticker.
PlanNext ==
    /\ pc = "plan"
    /\ \E i \in DOMAIN composite.ranked :
           /\ composite.ranked[i].ticker \notin DOMAIN plans
           /\ \A j \in 1 .. (i - 1) : composite.ranked[j].ticker \in DOMAIN plans
           /\ \E c \in feed.contexts[composite.ranked[i].ticker] :
                  plans' = [t \in DOMAIN plans \cup {composite.ranked[i].ticker} |->
                               IF t \in DOMAIN plans THEN plans[t]
                               ELSE Plan(t, c.entry, c.resistance, c.atr)]
    /\ calls' = [calls EXCEPT !.planner = @ + 1]
    /\ UNCHANGED <<regimeVars, pc, request, candidates, tasks, results,
                   composite, report, riskVars,
                   feed, sectors, fundamentals, authVars, flowVars, clientVars>>

\* The Report is built once every ranked ticker has its plan.
Report ==
    /\ pc = "plan"
    /\ RankedTickers(composite) \subseteq DOMAIN plans
    /\ report' = BuildReport(decision, sectors, composite, plans)
    /\ pc' = "done"
    /\ UNCHANGED <<regimeVars, request, calls, candidates, tasks, results,
                   composite, plans, riskVars,
                   feed, sectors, fundamentals, authVars, flowVars, clientVars>>

NextPipeline ==
    \/ RegimeGate
    \/ BypassRegimeGate
    \/ ScreenSectors
    \/ UseGivenTickers
    \/ Dispatch
    \/ Finish
    \/ Fail
    \/ Timeout
    \/ Aggregate
    \/ PlanNext
    \/ Report

SpecPipeline == InitPipeline /\ [][NextPipeline]_vars

----------------------------------------------------------------------------
(* Aggregator.rank on its own: any assessments of RankTickers, ranked.     *)

\* The candidates of the ranking on its own are the tickers 1 .. NumRanked.
NumRanked == 4

\* How many of the three hard filters an assessment fails.
FiltersFailed(a) ==
    (IF a.fund = "FAIL" THEN 1 ELSE 0)
        + (IF a.tech < 70 THEN 1 ELSE 0)
        + (IF a.flow = "LOW" THEN 1 ELSE 0)

\* The assessments that fail none, one or all of the hard filters.
RankAssessments == {a \in Assessments : FiltersFailed(a) \in {0, 1, 3}}

\* The financial record of the runs with the given verdict.
RecordWith(verdict) ==
    CHOOSE f \in PipelineFundamentals :
        /\ FundamentalVerdict(f) = verdict
        /\ \A g \in PipelineFundamentals :
               FundamentalVerdict(g) = verdict => FScore(f) >= FScore(g)

InitRank ==
    /\ snapshot \in {s \in PipelineSnapshots : ~Terminates(Evaluate(s).regime)}
    /\ decision = Evaluate(snapshot)
    /\ pc = "deepdive"
    /\ request = [force |-> FALSE, tickers |-> {}]
    /\ calls = [NoCalls EXCEPT !.regime = 1, !.sectors = 1,
                               !.evaluators = NumRanked * Len(Evaluators)]
    /\ candidates = 1 .. NumRanked
    /\ tasks = [id \in TaskIds(candidates) |-> "done"]
    /\ results \in [candidates -> RankAssessments]
    /\ composite = NoComposite
    /\ plans = <<>>
    /\ report = NoReport
    /\ plan = NoPlan
    /\ position = NoPosition
    /\ feed = OpenFeed(PipelineSectors, [i \in {1} |-> candidates], candidates)
    /\ sectors = Screen(feed.sectorSeries, feed.benchmark)
    /\ fundamentals = [t \in candidates |-> Assess(RecordWith(results[t].fund))]
    /\ now = 0
    /\ issued = {}
    /\ validation = NoValidation
    /\ response = NoResponse
    /\ flowAssessment = NoFlowAssessment
    /\ ClientsIdle

NextRank == Aggregate

SpecRank == InitRank /\ [][NextRank]_vars

----------------------------------------------------------------------------
(* SectorScreener.screen on its own: any sector series, in any order.      *)

\* The sector series of the model hold up to NumSectors sectors.
NumSectors == 4

\* The excess returns of a sector over the 1-week, 1-month and 3-month
\* windows: three profiles with score 1.0, of which two with the same
\* 1-month alpha, and one with score 1.5.
AlphaProfiles == {<<2, 0, 0>>, <<0, 2, 2>>, <<0, 0, 5>>, <<3, 0, 0>>}

\* A sector series: the sectors 1 .. n in any order, each with a profile.
SectorSeries ==
    UNION {{[i \in 1 .. n |->
                [id |-> p[i],
                 ret1w |-> PipelineBenchmark.ret1w + f[p[i]][1],
                 ret1m |-> PipelineBenchmark.ret1m + f[p[i]][2],
                 ret3m |-> PipelineBenchmark.ret3m + f[p[i]][3]]] :
               p \in Permutations(1 .. n), f \in [1 .. n -> AlphaProfiles]} :
           n \in 0 .. NumSectors}

InitSectors ==
    /\ snapshot \in {s \in PipelineSnapshots : ~Terminates(Evaluate(s).regime)}
    /\ decision = Evaluate(snapshot)
    /\ pc = "sectors"
    /\ request = [force |-> FALSE, tickers |-> {}]
    /\ calls = [NoCalls EXCEPT !.regime = 1]
    /\ candidates = {}
    /\ tasks = <<>>
    /\ results = <<>>
    /\ composite = NoComposite
    /\ plans = <<>>
    /\ report = NoReport
    /\ plan = NoPlan
    /\ position = NoPosition
    /\ \E series \in SectorSeries :
           feed = OpenFeed(series, [i \in 1 .. Len(series) |-> {i}],
                           1 .. Len(series))
    /\ sectors = <<>>
    /\ fundamentals = <<>>
    /\ now = 0
    /\ issued = {}
    /\ validation = NoValidation
    /\ response = NoResponse
    /\ flowAssessment = NoFlowAssessment
    /\ ClientsIdle

NextSectors == ScreenSectors

SpecSectors == InitSectors /\ [][NextSectors]_vars

----------------------------------------------------------------------------
(* FundamentalEvaluator in a run: one candidate whose technical and flow   *)
(* evaluators have returned, its fundamental evaluator still running.      *)

\* The criteria a record meets: the first k, or the last k, of the nine.
MetSets == {1 .. k : k \in 0 .. 9} \cup {k .. 9 : k \in 1 .. 9}

\* The disclosures of a record: none, a blacklist category inside or
\* outside the window, another category inside it.
DisclosureSets ==
    {{}, {[category |-> "embezzlement", age |-> DisclosureWindow - 1]},
     {[category |-> "embezzlement", age |-> DisclosureWindow + 1]},
     {[category |-> "dividend", age |-> DisclosureWindow - 1]}}

\* Financial records on either side of each threshold, complete or with
\* the inputs of one criterion absent.
FundamentalRecords ==
    {f \in [met : MetSets,
            absent : {{}, {9}},
            relPer : {RelativePerMax - 1, RelativePerMax},
            peg : {PegMax - 1, PegMax},
            disclosures : DisclosureSets,
            overhang : {OverhangWarnPct - 1, OverhangWarnPct}] :
        f.met \cap f.absent = {}}

InitFundamental ==
    /\ snapshot \in {s \in PipelineSnapshots : ~Terminates(Evaluate(s).regime)}
    /\ decision = Evaluate(snapshot)
    /\ pc = "deepdive"
    /\ request = [force |-> FALSE, tickers |-> {}]
    /\ calls = [NoCalls EXCEPT !.regime = 1, !.sectors = 1,
                               !.evaluators = Len(Evaluators)]
    /\ candidates = {5930}
    /\ tasks = [id \in TaskIds(candidates) |->
                   IF Evaluators[id[2]] = "fund" THEN "running" ELSE "done"]
    /\ \E a \in Assessments :
           results = [t \in candidates |-> [a EXCEPT !.fund = "NONE"]]
    /\ composite = NoComposite
    /\ plans = <<>>
    /\ report = NoReport
    /\ plan = NoPlan
    /\ position = NoPosition
    /\ \E f \in FundamentalRecords :
           feed = [OpenFeed(PipelineSectors, [i \in {1} |-> candidates],
                            candidates)
                      EXCEPT !.returns[<<5930, 2>>] = {f}, !.failing = {}]
    /\ sectors = Screen(feed.sectorSeries, feed.benchmark)
    /\ fundamentals = [t \in candidates |-> NoFundamentals]
    /\ now = 0
    /\ issued = {}
    /\ validation = NoValidation
    /\ response = NoResponse
    /\ flowAssessment = NoFlowAssessment
    /\ ClientsIdle

NextFundamental == Finish \/ Aggregate \/ PlanNext \/ Report

SpecFundamental == InitFundamental /\ [][NextFundamental]_vars

----------------------------------------------------------------------------
(* runPipeline on given inputs: what each data source returns is fixed     *)
(* before the run; only the scheduling of phase 3 is left open.            *)

\* What one task reads off its bundle: a value, or nothing (missing data).
TaskInputs(e) ==
    IF Evaluators[e] = "tech"
    THEN {[missing |-> FALSE, value |-> {v}] : v \in {70, 90}}
             \cup {[missing |-> TRUE, value |-> {}]}
    ELSE IF Evaluators[e] = "fund"
    THEN {[missing |-> FALSE, value |-> {RecordWith("PASS")}],
          [missing |-> TRUE, value |-> {}]}
    ELSE {[missing |-> FALSE, value |-> {v}] : v \in {"MEDIUM", "HIGH"}}

\* The entry contexts of the given inputs: one rejected, one accepted.
GivenContexts == {c \in EntryContexts : c.resistance \in {11000, 12200}}

\* A feed in which every task has one outcome and every ticker one entry
\* context.
ClosedFeed(inputs, ctx) ==
    [benchmark |-> PipelineBenchmark,
     sectorSeries |-> PipelineSectors,
     members |-> [i \in {1} |-> PipelineTickers],
     returns |-> [id \in TaskIds(PipelineTickers) |-> inputs[id].value],
     failing |-> {id \in TaskIds(PipelineTickers) : inputs[id].missing},
     contexts |-> [t \in PipelineTickers |-> {ctx[t]}]]

InitIdempotent ==
    /\ snapshot \in {s \in PipelineSnapshots : ~Terminates(Evaluate(s).regime)}
    /\ decision = NoDecision
    /\ pc = "regime"
    /\ request \in {r \in Requests :
                       r.force = (r.tickers # {}) /\ r.tickers # {660}}
    /\ calls = NoCalls
    /\ candidates = {}
    /\ tasks = <<>>
    /\ results = <<>>
    /\ composite = NoComposite
    /\ plans = <<>>
    /\ report = NoReport
    /\ plan = NoPlan
    /\ position = NoPosition
    /\ \E tech \in [PipelineTickers -> TaskInputs(1)],
          fund \in [PipelineTickers -> TaskInputs(2)],
          flow \in [PipelineTickers -> TaskInputs(3)],
          ctx \in [PipelineTickers -> GivenContexts] :
           feed = ClosedFeed([id \in TaskIds(PipelineTickers) |->
                                 IF id[2] = 1 THEN tech[id[1]]
                                 ELSE IF id[2] = 2 THEN fund[id[1]]
                                 ELSE flow[id[1]]],
                             ctx)
    /\ sectors = <<>>
    /\ fundamentals = <<>>
    /\ now = 0
    /\ issued = {}
    /\ validation = NoValidation
    /\ response = NoResponse
    /\ flowAssessment = NoFlowAssessment
    /\ ClientsIdle

SpecIdempotent == InitIdempotent /\ [][NextPipeline]_vars

----------------------------------------------------------------------------
(* Phases 4 and 5 of a run with more candidates than the shortlist holds.  *)

\* Two assessments that pass every hard filter and one that does not.
ShortlistAssessments ==
    {[tech |-> 90, fund |-> "PASS", flow |-> "HIGH"],
     [tech |-> 70, fund |-> "PASS", flow |-> "MEDIUM"],
     [tech |-> 69, fund |-> "PASS", flow |-> "HIGH"]}

InitShortlist ==
    /\ snapshot \in {s \in PipelineSnapshots : ~Terminates(Evaluate(s).regime)}
    /\ decision = Evaluate(snapshot)
    /\ pc = "deepdive"
    /\ request = [force |-> FALSE, tickers |-> {}]
    /\ calls = [NoCalls EXCEPT !.regime = 1, !.sectors = 1,
                               !.evaluators = NumRanked * Len(Evaluators)]
    /\ candidates = 1 .. NumRanked
    /\ tasks = [id \in TaskIds(candidates) |-> "done"]
    /\ results \in [candidates -> ShortlistAssessments]
    /\ composite = NoComposite
    /\ plans = <<>>
    /\ report = NoReport
    /\ plan = NoPlan
    /\ position = NoPosition
    /\ feed = OpenFeed(PipelineSectors, [i \in {1} |-> candidates], candidates)
    /\ sectors = Screen(feed.sectorSeries, feed.benchmark)
    /\ fundamentals = [t \in candidates |-> Assess(RecordWith(results[t].fund))]
    /\ now = 0
    /\ issued = {}
    /\ validation = NoValidation
    /\ response = NoResponse
    /\ flowAssessment = NoFlowAssessment
    /\ ClientsIdle

NextShortlist == Aggregate \/ PlanNext \/ Report

SpecShortlist == InitShortlist /\ [][NextShortlist]_vars

----------------------------------------------------------------------------
(* runPipeline from phase 3 on, with an evaluator that may never return:   *)
(* only the timer, the aggregator, the planner and the report builder are  *)
(* certain to take their step.                                             *)

\* The feeds of those runs: every evaluator has one value to return, at
\* most one of them can fail, every ticker has one entry context.
TimeoutFeeds ==
    {ClosedFeed([id \in TaskIds(PipelineTickers) |->
                    [missing |-> id \in failing,
                     value |-> IF Evaluators[id[2]] = "tech" THEN {90}
                               ELSE IF Evaluators[id[2]] = "fund"
                               THEN {RecordWith("PASS")}
                               ELSE {"HIGH"}]],
                ctx) :
        failing \in {{}} \cup {{id} : id \in TaskIds(PipelineTickers)},
        ctx \in [PipelineTickers -> GivenContexts]}

InitTimeout ==
    /\ snapshot \in {s \in PipelineSnapshots : ~Terminates(Evaluate(s).regime)}
    /\ decision = Evaluate(snapshot)
    /\ pc = "deepdive"
    /\ request = [force |-> FALSE, tickers |-> {}]
    /\ calls = [NoCalls EXCEPT !.regime = 1, !.sectors = 1]
    /\ feed \in TimeoutFeeds
    /\ sectors = Screen(feed.sectorSeries, feed.benchmark)
    /\ candidates = CandidatesOf(sectors, feed.members)
    /\ tasks = [id \in TaskIds(candidates) |-> "idle"]
    /\ results = [t \in candidates |->
                     [tech |-> 0, fund |-> "NONE", flow |-> "NONE"]]
    /\ fundamentals = [t \in candidates |-> NoFundamentals]
    /\ composite = NoComposite
    /\ plans = <<>>
    /\ report = NoReport
    /\ plan = NoPlan
    /\ position = NoPosition
    /\ now = 0
    /\ issued = {}
    /\ validation = NoValidation
    /\ response = NoResponse
    /\ flowAssessment = NoFlowAssessment
    /\ ClientsIdle

NextTimeout ==
    \/ Dispatch
    \/ Finish
    \/ Fail
    \/ Timeout
    \/ Aggregate
    \/ PlanNext
    \/ Report

\* The timer fires unless the join comes first; phases 4 and 5 and the
\* report builder run when their turn has come.  Nothing is assumed of the
\* evaluators.
SpecTimeout ==
    /\ InitTimeout
    /\ [][NextTimeout]_vars
    /\ WF_vars(Timeout)
    /\ WF_vars(Aggregate)
    /\ WF_vars(PlanNext)
    /\ WF_vars(Report)

----------------------------------------------------------------------------
(* FlowEvaluator.assess on its own: every bundle, assessed once.           *)

\* The net flows of one session: foreign buying, institutional buying,
\* both flat, both selling.
DayFlows ==
    {[foreign |-> 1, inst |-> -1], [foreign |-> -1, inst |-> 1],
     [foreign |-> 0, inst |-> 0], [foreign |-> -1, inst |-> -1]}

\* Bundles on either side of each signal's threshold.
FlowBundles ==
    [slope : {-1, 0, 1},
     instBuy : {BrokerMultiple * 100 - 1, BrokerMultiple * 100,
                BrokerMultiple * 100 + 1},
     retailBuy : {100},
     days : [1 .. AccumulationSessions -> DayFlows]]

InitFlow ==
    /\ snapshot \in {s \in Snapshots : /\ s.breadth = OversoldADR
                                       /\ s.fxCorr = 0
                                       /\ s.vol = 100 /\ s.volPrev = 100
                                       /\ s.index = s.indexMA20}
    /\ decision = NoDecision
    /\ pc = "idle"
    /\ request = [force |-> FALSE, tickers |-> {}]
    /\ calls = NoCalls
    /\ candidates = {}
    /\ tasks = <<>>
    /\ results = <<>>
    /\ composite = NoComposite
    /\ plans = <<>>
    /\ report = NoReport
    /\ plan = NoPlan
    /\ position = NoPosition
    /\ feed = NoFeed
    /\ sectors = <<>>
    /\ fundamentals = <<>>
    /\ now = 0
    /\ issued = {}
    /\ validation = NoValidation
    /\ response = NoResponse
    /\ \E f \in FlowBundles :
           flowAssessment = [assessed |-> FALSE, bundle |-> f]
    /\ ClientsIdle

\* FlowEvaluator.assess(candidate)
EvaluateFlow ==
    /\ ~flowAssessment.assessed
    /\ flowAssessment' = AssessFlow(flowAssessment.bundle)
    /\ UNCHANGED <<regimeVars, pipeVars, riskVars, authVars, clientVars>>

NextFlow == EvaluateFlow

SpecFlow == InitFlow /\ [][NextFlow]_vars

----------------------------------------------------------------------------
(* Phases 3 and 4 of a run whose technical evaluators are the last to      *)
(* return, in any order.                                                   *)

\* Assessments with composites 95.0, 80.0 and 85.0, and one that the
\* technical filter discards.
ArrivalAssessments ==
    {[tech |-> 90, fund |-> "PASS", flow |-> "HIGH"],
     [tech |-> 90, fund |-> "PASS", flow |-> "MEDIUM"],
     [tech |-> 70, fund |-> "PASS", flow |-> "HIGH"],
     [tech |-> 69, fund |-> "PASS", flow |-> "HIGH"]}

InitArrivals ==
    /\ snapshot \in {s \in PipelineSnapshots : ~Terminates(Evaluate(s).regime)}
    /\ decision = Evaluate(snapshot)
    /\ pc = "deepdive"
    /\ request = [force |-> FALSE, tickers |-> {}]
    /\ calls = [NoCalls EXCEPT !.regime = 1, !.sectors = 1,
                               !.evaluators = NumRanked * Len(Evaluators)]
    /\ candidates = 1 .. NumRanked
    /\ tasks = [id \in TaskIds(candidates) |->
                   IF Evaluators[id[2]] = "tech" THEN "running" ELSE "done"]
    /\ \E given \in [candidates -> ArrivalAssessments] :
           /\ results = [t \in candidates |-> [given[t] EXCEPT !.tech = 0]]
           /\ feed = [benchmark |-> PipelineBenchmark,
                      sectorSeries |-> PipelineSectors,
                      members |-> [i \in {1} |-> candidates],
                      returns |-> [id \in TaskIds(candidates) |->
                                      IF Evaluators[id[2]] = "tech"
                                      THEN {given[id[1]].tech}
                                      ELSE {}],
                      failing |-> {},
                      contexts |-> [t \in candidates |-> EntryContexts]]
    /\ composite = NoComposite
    /\ plans = <<>>
    /\ report = NoReport
    /\ plan = NoPlan
    /\ position = NoPosition
    /\ sectors = Screen(feed.sectorSeries, feed.benchmark)
    /\ fundamentals = [t \in candidates |-> Assess(RecordWith(results[t].fund))]
    /\ now = 0
    /\ issued = {}
    /\ validation = NoValidation
    /\ response = NoResponse
    /\ flowAssessment = NoFlowAssessment
    /\ ClientsIdle

NextArrivals == Finish \/ Aggregate

SpecArrivals == InitArrivals /\ [][NextArrivals]_vars

----------------------------------------------------------------------------
(* Phases 3 to 5 of a run in which the financial records of the bundles    *)
(* may lack inputs of the F-Score; the technical evaluators have returned. *)

\* A complete record that passes; records that meet every criterion whose
\* inputs are there, with the inputs of one criterion, or of all, absent.
BundleRecords ==
    {[met |-> Criteria \ absent, absent |-> absent, relPer |-> 70,
      peg |-> 100, disclosures |-> {}, overhang |-> 0] :
        absent \in {{}, {1}, {9}, Criteria}}

InitBundles ==
    /\ snapshot \in {s \in PipelineSnapshots : ~Terminates(Evaluate(s).regime)}
    /\ decision = Evaluate(snapshot)
    /\ pc = "deepdive"
    /\ request = [force |-> FALSE, tickers |-> {}]
    /\ calls = [NoCalls EXCEPT !.regime = 1, !.sectors = 1,
                               !.evaluators = 2 * Len(Evaluators)]
    /\ candidates = PipelineTickers
    /\ tasks = [id \in TaskIds(candidates) |->
                   IF Evaluators[id[2]] = "tech" THEN "done" ELSE "running"]
    /\ results = [t \in candidates |->
                     [tech |-> 90, fund |-> "NONE", flow |-> "NONE"]]
    /\ \E given \in [candidates -> BundleRecords] :
           feed = [benchmark |-> PipelineBenchmark,
                   sectorSeries |-> PipelineSectors,
                   members |-> [i \in {1} |-> candidates],
                   returns |-> [id \in TaskIds(candidates) |->
                                   IF Evaluators[id[2]] = "fund"
                                   THEN {given[id[1]]}
                                   ELSE {"HIGH"}],
                   failing |-> {},
                   contexts |-> [t \in candidates |-> GivenContexts]]
    /\ composite = NoComposite
    /\ plans = <<>>
    /\ report = NoReport
    /\ plan = NoPlan
    /\ position = NoPosition
    /\ sectors = Screen(feed.sectorSeries, feed.benchmark)
    /\ fundamentals = [t \in candidates |-> NoFundamentals]
    /\ now = 0
    /\ issued = {}
    /\ validation = NoValidation
    /\ response = NoResponse
    /\ flowAssessment = NoFlowAssessment
    /\ ClientsIdle

NextBundles == Finish \/ Aggregate \/ PlanNext \/ Report

SpecBundles == InitBundles /\ [][NextBundles]_vars

----------------------------------------------------------------------------
(* core-gateway: the JWT service and the middleware of the protected API   *)
(*                                                                         *)
(* A Go string is a sequence of chunks: a run of valid UTF-8 text, the     *)
(* byte 0xFF (not valid UTF-8) or the replacement rune U+FFFD.  A token    *)
(* string is one chunk: the compact serialisation header.payload.signature *)
(* of a JWT, whose payload holds the claims as JSON encoded them and whose *)
(* signature is the MAC of header and payload under a key.  Time is in     *)
(* ticks, Resolution ticks to the second.                                  *)

\* Ticks per second.
Resolution == 2

\* The clock of the model stops at MaxTime ticks.
MaxTime == 5

InvalidByte == "xFF"

ReplacementRune == "uFFFD"

NoClaims == [user_id |-> <<>>, role |-> <<>>, iss |-> <<>>, exp |-> 0, iat |-> 0]

NoSignature == [key |-> "", alg |-> "", claims |-> NoClaims]

NoJwt == [alg |-> "", claims |-> NoClaims, sig |-> NoSignature]

\* A chunk of text that is no token, and the chunk a JWT serialises to.
Word(w) == [word |-> w, jwt |-> NoJwt]

TokenString(j) == [word |-> "", jwt |-> j]

Space == Word(" ")

\* encoding/json: a string is coerced to valid UTF-8, invalid bytes
\* replaced by U+FFFD.
JsonString(str) ==
    [i \in DOMAIN str |-> IF str[i] = InvalidByte THEN ReplacementRune ELSE str[i]]

\* jwt.NewNumericDate: the time truncated to the second.
NumericDate(t) == (t \div Resolution) * Resolution

\* The MAC of header and payload under a key.
Sign(key, alg, claims) == [key |-> key, alg |-> alg, claims |-> claims]

\* NewJWTService
NewJWTService(secret, expiry) ==
    [secretKey |-> secret, issuer |-> <<"woorung-gaksi">>, expiry |-> expiry]

\* jwtService.GenerateToken at time t
GenerateToken(s, userID, role, t) ==
    LET claims == [user_id |-> JsonString(userID),
                   role |-> JsonString(role),
                   iss |-> JsonString(s.issuer),
                   exp |-> NumericDate(t + s.expiry),
                   iat |-> NumericDate(t)]
    IN  <<TokenString([alg |-> "HS256",
                       claims |-> claims,
                       sig |-> Sign(s.secretKey, "HS256", claims)])>>

\* token.Method.(*jwt.SigningMethodHMAC)
IsHMAC(alg) == alg \in {"HS256", "HS384", "HS512"}

Rejected == [err |-> TRUE, claims |-> NoClaims]

\* Faulty variant: the signature is not verified.
ValidateTokenUnverified(s, tokenString, t) ==
    IF Len(tokenString) # 1 \/ tokenString[1].jwt = NoJwt THEN Rejected
    ELSE IF ~IsHMAC(tokenString[1].jwt.alg) THEN Rejected
    ELSE IF ~(t < tokenString[1].jwt.claims.exp) THEN Rejected
    ELSE [err |-> FALSE, claims |-> tokenString[1].jwt.claims]

\* jwtService.ValidateToken at time t: the string parses as a JWT, its
\* method is an HMAC, its signature is the MAC under the service's key and
\* its expiry lies after t.
ValidateToken(s, tokenString, t) ==
    IF Len(tokenString) # 1 \/ tokenString[1].jwt = NoJwt THEN Rejected
    ELSE IF ~IsHMAC(tokenString[1].jwt.alg) THEN Rejected
    ELSE IF tokenString[1].jwt.sig
                # Sign(s.secretKey, tokenString[1].jwt.alg,
                       tokenString[1].jwt.claims)
         THEN Rejected
    ELSE IF ~(t < tokenString[1].jwt.claims.exp) THEN Rejected
    ELSE [err |-> FALSE, claims |-> tokenString[1].jwt.claims]

\* strings.Split(header, " ")
RECURSIVE Split(_)
Split(str) ==
    IF \A i \in DOMAIN str : str[i] # Space THEN <<str>>
    ELSE LET k == CHOOSE i \in DOMAIN str :
                      str[i] = Space /\ \A j \in 1 .. (i - 1) : str[j] # Space
         IN  <<SubSeq(str, 1, k - 1)>> \o Split(SubSeq(str, k + 1, Len(str)))

Unauthorized(message) ==
    [status |-> 401, ran |-> FALSE, userID |-> <<>>, role |-> <<>>,
     error |-> message]

\* Faulty variant: the scheme of the header is not looked at.
AuthMiddlewareAnyScheme(s, authHeader, t) ==
    IF authHeader = <<>>
    THEN Unauthorized("Authorization header is missing")
    ELSE IF Len(Split(authHeader)) # 2
    THEN Unauthorized("Invalid token format")
    ELSE IF ValidateToken(s, Split(authHeader)[2], t).err
    THEN Unauthorized("Invalid or expired token")
    ELSE [status |-> 200, ran |-> TRUE,
          userID |-> ValidateToken(s, Split(authHeader)[2], t).claims.user_id,
          role |-> ValidateToken(s, Split(authHeader)[2], t).claims.role,
          error |-> ""]

\* AuthMiddleware in front of the handler of GET /api/v1/me, at time t
AuthMiddleware(s, authHeader, t) ==
    IF authHeader = <<>>
    THEN Unauthorized("Authorization header is missing")
    ELSE IF Len(Split(authHeader)) # 2
            \/ Split(authHeader)[1] # <<Word("Bearer")>>
    THEN Unauthorized("Invalid token format")
    ELSE IF ValidateToken(s, Split(authHeader)[2], t).err
    THEN Unauthorized("Invalid or expired token")
    ELSE [status |-> 200, ran |-> TRUE,
          userID |-> ValidateToken(s, Split(authHeader)[2], t).claims.user_id,
          role |-> ValidateToken(s, Split(authHeader)[2], t).claims.role,
          error |-> ""]

\* The service of the gateway: jwtService of main, expiry 24 hours.
Gateway == NewJWTService("secret", 24 * 3600 * Resolution)

\* The services that generate tokens: with the gateway's secret or another,
\* expiring after a second, or a second and a tick.
Issuers ==
    {NewJWTService(k, e) : k \in {"secret", "other"},
                           e \in {Resolution, Resolution + 1}}

UserIDs == {<<"user_123">>, <<"user_", InvalidByte>>}

Roles == {<<"admin">>, <<InvalidByte>>}

\* A token whose payload was altered after signing.
Tampered(tokenString) ==
    <<[tokenString[1] EXCEPT !.jwt.claims.role = <<"root">>]>>

\* A token re-issued unsigned, with method none.
Unsigned(tokenString) ==
    <<[tokenString[1] EXCEPT !.jwt.alg = "none", !.jwt.sig = NoSignature]>>

\* The strings a client can present as a token: the one generated, its
\* altered copies, text that is no JWT, and the empty string.
TokenStrings ==
    UNION {{c.token, Tampered(c.token), Unsigned(c.token)} : c \in issued}
        \cup {<<Word("invalid.token.string")>>, <<>>}

\* The Authorization headers a client can send: every token string in the
\* form "Bearer <token>", and the generated token in forms that differ from
\* it.
Headers ==
    {<<>>, <<Word("Bearer")>>, <<Word("Bearer"), Space>>}
        \cup {<<Word("Bearer"), Space>> \o x : x \in TokenStrings}
        \cup UNION {{c.token,
                     <<Word("Bearer")>> \o c.token,
                     <<Word("bearer"), Space>> \o c.token,
                     <<Word("Basic"), Space>> \o c.token,
                     <<Word("Bearer"), Space, Space>> \o c.token,
                     <<Word("Bearer"), Space>> \o c.token \o <<Space>>,
                     <<Space, Word("Bearer"), Space>> \o c.token,
                     <<Word("Bearer"), Space>> \o c.token
                         \o <<Space, Word("x")>>} : c \in issued}

InitGateway ==
    /\ snapshot \in {s \in Snapshots : /\ s.breadth = OversoldADR
                                       /\ s.fxCorr = 0
                                       /\ s.vol = 100 /\ s.volPrev = 100
                                       /\ s.index = s.indexMA20}
    /\ decision = NoDecision
    /\ pc = "idle"
    /\ request = [force |-> FALSE, tickers |-> {}]
    /\ calls = NoCalls
    /\ candidates = {}
    /\ tasks = <<>>
    /\ results = <<>>
    /\ composite = NoComposite
    /\ plans = <<>>
    /\ report = NoReport
    /\ plan = NoPlan
    /\ position = NoPosition
    /\ feed = NoFeed
    /\ sectors = <<>>
    /\ fundamentals = <<>>
    /\ now = 0
    /\ issued = {}
    /\ validation = NoValidation
    /\ response = NoResponse
    /\ flowAssessment = NoFlowAssessment
    /\ ClientsIdle

\* Time passes.
Tick ==
    /\ now < MaxTime
    /\ now' = now + 1
    /\ UNCHANGED <<regimeVars, pipeVars, riskVars, flowVars, clientVars,
                   issued, validation, response>>

\* A service generates the token the client holds.
Generate ==
    /\ issued = {}
    /\ \E s \in Issuers, u \in UserIDs, r \in Roles :
           issued' = {[service |-> s, userID |-> u, role |-> r, at |-> now,
                       token |-> GenerateToken(s, u, r, now)]}
    /\ UNCHANGED <<regimeVars, pipeVars, riskVars, flowVars, clientVars,
                   now, validation, response>>

\* The gateway's service validates a string.
Validate ==
    /\ \E x \in TokenStrings :
           validation' = [called |-> TRUE, input |-> x, at |-> now,
                          result |-> ValidateToken(Gateway, x, now)]
    /\ UNCHANGED <<regimeVars, pipeVars, riskVars, flowVars, clientVars,
                   now, issued, response>>

\* GET /api/v1/me with an Authorization header.
ServeProtected ==
    /\ \E h \in Headers :
           response' = [AuthMiddleware(Gateway, h, now) EXCEPT !.error = ""]
                           @@ [header |-> h, at |-> now]
    /\ UNCHANGED <<regimeVars, pipeVars, riskVars, flowVars, clientVars,
                   now, issued, validation>>

\* The JWT service on its own: tokens generated and strings validated.
NextJwt == Tick \/ Generate \/ Validate

SpecJwt == InitGateway /\ [][NextJwt]_vars

\* The protected API: tokens generated and requests served.
NextGateway == Tick \/ Generate \/ ServeProtected

SpecGateway == InitGateway /\ [][NextGateway]_vars

----------------------------------------------------------------------------
(* core-gateway: the agent client and the handler of POST /api/v1/ask      *)

\* A JSON value as encoding/json decodes it into an interface{}.
JsonText(s) == [type |-> "string", value |-> s]

JsonNumber == [type |-> "number", value |-> "7"]

JsonNull == [type |-> "null", value |-> ""]

\* A JSON object: its keys and the value under each.
JsonObject(keys, valueOf) == [k \in keys |-> valueOf[k]]

\* A body as sent: the JSON text it holds and, for an object, its members.
Body(text, object) == [text |-> text, object |-> object]

NoBody == Body("empty", <<>>)

\* json.Unmarshal(body, &result) into a map[string]interface{}: an object
\* fills the map, null leaves it nil, anything else is an error.
Unmarshal(body) ==
    CASE body.text = "object" -> [err |-> FALSE, result |-> body.object]
      [] body.text = "null" -> [err |-> FALSE, result |-> <<>>]
      [] OTHER -> [err |-> TRUE, result |-> <<>>]

\* result[key].(string) with the ok flag dropped: the string under the key,
\* "" when the key is absent or its value is not a string.
StringField(result, key) ==
    IF key \in DOMAIN result /\ result[key].type = "string"
    THEN result[key].value
    ELSE ""

\* What Ask returns: (response, newThreadID, err).
AskResult(reply, threadID, err) ==
    [reply |-> reply, threadID |-> threadID, err |-> err # "", error |-> err]

\* AgentClient.Ask against a PM Agent that answers pm.  The thread stays
\* the caller's unless the answer names another one.
AgentClientAskDropsThread(message, userID, threadID, pm) ==
    IF pm.failed
    THEN AskResult("", "", "failed to contact PM Agent")
    ELSE IF pm.status # 200
    THEN AskResult("", "", "PM Agent returned error")
    ELSE IF Unmarshal(pm.body).err
    THEN AskResult("", "", "failed to parse response")
    ELSE AskResult(StringField(Unmarshal(pm.body).result, "reply"),
                   StringField(Unmarshal(pm.body).result, "thread_id"), "")

AgentClientAsk(message, userID, threadID, pm) ==
    IF pm.failed
    THEN AskResult("", threadID, "failed to contact PM Agent")
    ELSE IF pm.status # 200
    THEN AskResult("", threadID, "PM Agent returned error")
    ELSE IF Unmarshal(pm.body).err
    THEN AskResult("", threadID, "failed to parse response")
    ELSE LET result == Unmarshal(pm.body).result
             newThreadID == StringField(result, "thread_id")
         IN  AskResult(StringField(result, "reply"),
                       IF newThreadID = "" THEN threadID ELSE newThreadID,
                       "")

\* The payload AgentClient.Ask posts to the PM Agent.
Payload(message, userID, threadID) ==
    [message |-> message, user_id |-> userID, thread_id |-> threadID]

\* c.ShouldBindJSON(&req) on an AskRequest: the body is decoded into the
\* three string fields (a member of another type is an error, null leaves
\* the field empty) and Message is required, so it must not be empty.
ShouldBindJSON(body) ==
    LET decoded == Unmarshal(body)
        mistyped == {k \in DOMAIN decoded.result \cap
                               {"message", "source", "thread_id"} :
                         decoded.result[k].type = "number"}
        req == [Message |-> StringField(decoded.result, "message"),
                Source |-> StringField(decoded.result, "source"),
                ThreadID |-> StringField(decoded.result, "thread_id")]
    IN  [err |-> decoded.err \/ mistyped # {} \/ req.Message = "", req |-> req]

\* Handler.Ask on a request body of the user the middleware has stored,
\* the service being an AgentClient whose PM Agent answers pm.
HandlerAskUnbound(body, userID, pm) ==
    LET req == ShouldBindJSON(body).req
        answer == AgentClientAsk(req.Message, userID, req.ThreadID, pm)
    IN  IF answer.err
        THEN [status |-> 502, json |-> [error |-> answer.error],
              called |-> TRUE,
              call |-> Payload(req.Message, userID, req.ThreadID),
              result |-> answer]
        ELSE [status |-> 200,
              json |-> [reply |-> answer.reply,
                        thread_id |-> answer.threadID],
              called |-> TRUE,
              call |-> Payload(req.Message, userID, req.ThreadID),
              result |-> answer]

HandlerAsk(body, userID, pm) ==
    IF ShouldBindJSON(body).err
    THEN [status |-> 400, json |-> [error |-> "binding"],
          called |-> FALSE, call |-> Payload("", "", ""),
          result |-> AskResult("", "", "")]
    ELSE HandlerAskUnbound(body, userID, pm)

\* The values a member of a body can have, Absent for a member left out.
Absent == [type |-> "absent", value |-> ""]

Members(texts) == {Absent, JsonNumber, JsonNull} \cup {JsonText(s) : s \in texts}

\* The object with the given members, the absent ones left out.
ObjectOf(members) ==
    JsonObject({k \in DOMAIN members : members[k] # Absent}, members)

\* What the PM Agent can answer: no answer at all, an answer with another
\* status than 200, and 200 with a body that is no JSON, no object, or an
\* object with any reply and thread_id.
PMAnswers ==
    {[failed |-> TRUE, status |-> 0, body |-> NoBody]}
        \cup {[failed |-> FALSE, status |-> s, body |-> b] :
                  s \in {201, 500},
                  b \in {NoBody,
                         Body("object",
                              ObjectOf([reply |-> JsonText("hi"),
                                        thread_id |-> JsonText("t2")]))}}
        \cup {[failed |-> FALSE, status |-> 200, body |-> Body(t, <<>>)] :
                  t \in {"empty", "garbage", "array", "null"}}
        \cup {[failed |-> FALSE, status |-> 200,
               body |-> Body("object",
                             ObjectOf([reply |-> r, thread_id |-> t]))] :
                  r \in Members({"hi"}), t \in Members({"", "t2"})}

\* The bodies a client can post to /api/v1/ask.
AskBodies ==
    {Body(t, <<>>) : t \in {"empty", "garbage", "array", "null"}}
        \cup {Body("object", ObjectOf([message |-> m, source |-> JsonText("cli"),
                                       thread_id |-> t])) :
                  m \in Members({"", "hello"}), t \in Members({"", "t1"})}

InitAsk ==
    /\ snapshot \in {s \in Snapshots : /\ s.breadth = OversoldADR
                                       /\ s.fxCorr = 0
                                       /\ s.vol = 100 /\ s.volPrev = 100
                                       /\ s.index = s.indexMA20}
    /\ decision = NoDecision
    /\ pc = "idle"
    /\ request = [force |-> FALSE, tickers |-> {}]
    /\ calls = NoCalls
    /\ candidates = {}
    /\ tasks = <<>>
    /\ results = <<>>
    /\ composite = NoComposite
    /\ plans = <<>>
    /\ report = NoReport
    /\ plan = NoPlan
    /\ position = NoPosition
    /\ feed = NoFeed
    /\ sectors = <<>>
    /\ fundamentals = <<>>
    /\ now = 0
    /\ issued = {}
    /\ validation = NoValidation
    /\ response = NoResponse
    /\ flowAssessment = NoFlowAssessment
    /\ bot = NoBot
    /\ inbox = <<>>
    /\ handlers = <<>>
    /\ outbox = <<>>
    /\ asks = {}
    /\ session = NoSession
    /\ history = <<>>
    /\ \E b \in AskBodies, pm \in PMAnswers :
           exchange = [served |-> FALSE, body |-> b, userID |-> "user_123",
                       pm |-> pm]

\* POST /api/v1/ask is served: Handler.Ask runs on the request.
ServeAsk ==
    /\ ~exchange.served
    /\ exchange' = [served |-> TRUE, body |-> exchange.body,
                    userID |-> exchange.userID, pm |-> exchange.pm,
                    answer |-> HandlerAsk(exchange.body, exchange.userID,
                                          exchange.pm)]
    /\ UNCHANGED <<regimeVars, pipeVars, riskVars, authVars, flowVars, bot,
                   inbox, handlers, outbox, asks, session, history>>

NextAsk == ServeAsk

SpecAsk == InitAsk /\ [][NextAsk]_vars

----------------------------------------------------------------------------
(* core-gateway: the Telegram bot                                          *)
(*                                                                         *)
(* Strings that are parsed or formatted are sequences of characters.  The  *)
(* bot polls one channel of updates in a loop of its own and starts one    *)
(* handler per accepted message; handlers[i] is the handler of update i.   *)

Digits == <<"0", "1", "2", "3", "4", "5", "6", "7", "8", "9">>

IsDigit(c) == \E d \in DOMAIN Digits : Digits[d] = c

DigitValue(c) == (CHOOSE d \in DOMAIN Digits : Digits[d] = c) - 1

\* The digits of the largest int64 and of the magnitude of the smallest.
MaxInt64 == <<"9", "2", "2", "3", "3", "7", "2", "0", "3", "6", "8", "5",
              "4", "7", "7", "5", "8", "0", "7">>

MinInt64Magnitude == [MaxInt64 EXCEPT ![Len(MaxInt64)] = "8"]

\* A numeral without its leading zeros.
RECURSIVE Significant(_)
Significant(ds) ==
    IF Len(ds) > 1 /\ ds[1] = "0" THEN Significant(Tail(ds)) ELSE ds

\* The numeral a is greater than the numeral b, neither with leading zeros.
RECURSIVE Greater(_, _)
Greater(a, b) ==
    IF Len(a) # Len(b)
    THEN Len(a) > Len(b)
    ELSE /\ a # <<>>
         /\ \/ DigitValue(a[1]) > DigitValue(b[1])
            \/ a[1] = b[1] /\ Greater(Tail(a), Tail(b))

RECURSIVE Magnitude(_)
Magnitude(ds) ==
    IF ds = <<>>
    THEN 0
    ELSE 10 * Magnitude(SubSeq(ds, 1, Len(ds) - 1)) + DigitValue(ds[Len(ds)])

\* strconv.ParseInt(s, 10, 64): an optional sign and then digits only, the
\* value within int64.  The value returned beside an error is never read.
ParseInt(s) ==
    LET signed == s # <<>> /\ s[1] \in {"+", "-"}
        neg == s # <<>> /\ s[1] = "-"
        ds == IF signed THEN Tail(s) ELSE s
    IN  IF ds = <<>> \/ \E i \in DOMAIN ds : ~IsDigit(ds[i])
        THEN [err |-> TRUE, value |-> 0]
        ELSE IF Greater(Significant(ds),
                        IF neg THEN MinInt64Magnitude ELSE MaxInt64)
        THEN [err |-> TRUE, value |-> 0]
        ELSE [err |-> FALSE,
              value |-> IF neg THEN 0 - Magnitude(ds) ELSE Magnitude(ds)]

RECURSIVE Numeral(_)
Numeral(n) ==
    IF n < 10
    THEN <<Digits[n + 1]>>
    ELSE Numeral(n \div 10) \o <<Digits[(n % 10) + 1]>>

\* strconv.FormatInt(n, 10).
FormatInt(n) == IF n < 0 THEN <<"-">> \o Numeral(0 - n) ELSE Numeral(n)

\* main, 3.1: the bot is made and started when a token is configured and
\* the Bot API accepts it; the allowed chat is TELEGRAM_ALLOWED_ID when
\* that is set and parses, and 0 otherwise.
StartBot(token, accepted, idStr) ==
    LET allowedID == IF idStr # <<>> /\ ~ParseInt(idStr).err
                     THEN ParseInt(idStr).value
                     ELSE 0
    IN  [env |-> idStr,
         allowedChatID |-> IF token # "" /\ accepted THEN allowedID ELSE 0,
         running |-> token # "" /\ accepted,
         denied |-> {}]

\* The whitelist check of the update loop, as the condition to go on.
AuthorizedAnyone(b, msg) == TRUE

Authorized(b, msg) == b.allowedChatID = 0 \/ msg.chat = b.allowedChatID

\* go b.handleMessage(update.Message): a handler of its own, about to send
\* the chat action.
Spawn(update) ==
    [i \in DOMAIN handlers \cup {update.id} |->
        IF i = update.id
        THEN [msg |-> update, pc |-> "typing"]
        ELSE handlers[i]]

\* One round of the update loop, waiting for the handlers it has started.
PollSynchronous ==
    /\ bot.running
    /\ inbox # <<>>
    /\ \A i \in DOMAIN handlers : handlers[i].pc = "done"
    /\ inbox' = Tail(inbox)
    /\ handlers' = IF Head(inbox).message THEN Spawn(Head(inbox)) ELSE handlers
    /\ UNCHANGED <<regimeVars, pipeVars, riskVars, authVars, flowVars, bot,
                   outbox, asks, session, history, exchange>>

\* One round of the update loop: the next update is taken from the channel;
\* an update without a message is skipped, a message from a chat that is
\* not allowed is logged and skipped, any other message gets a handler.
\* The log line reads the sender's name: a message without a sender ends
\* the process with a nil dereference.
Poll ==
    /\ bot.running
    /\ inbox # <<>>
    /\ inbox' = Tail(inbox)
    /\ LET update == Head(inbox)
       IN  IF ~update.message
           THEN UNCHANGED <<bot, handlers>>
           ELSE IF ~Authorized(bot, update)
           THEN /\ bot' = IF update.from
                          THEN [bot EXCEPT !.denied = @ \cup {update.id}]
                          ELSE [bot EXCEPT !.running = FALSE]
                /\ UNCHANGED handlers
           ELSE /\ handlers' = Spawn(update)
                /\ UNCHANGED bot
    /\ UNCHANGED <<regimeVars, pipeVars, riskVars, authVars, flowVars, outbox,
                   asks, session, history, exchange>>

\* What api.Send has sent for update i: a chat action or a message.
Sent(i, chat, kind, text) ==
    [update |-> i, chat |-> chat, kind |-> kind, text |-> text]

\* handleMessage: the "typing" chat action is sent to the chat.
SendTyping ==
    /\ bot.running
    /\ \E i \in DOMAIN handlers :
           /\ handlers[i].pc = "typing"
           /\ outbox' = Append(outbox,
                               Sent(i, handlers[i].msg.chat, "action",
                                    "typing"))
           /\ handlers' = [handlers EXCEPT ![i].pc = "ask"]
    /\ UNCHANGED <<regimeVars, pipeVars, riskVars, authVars, flowVars, bot,
                   inbox, asks, session, history, exchange>>

\* handleMessage: the agent is called with the text, the user
\* "telegram_user" and the chat ID in decimal as the thread.
CallAgent ==
    /\ bot.running
    /\ \E i \in DOMAIN handlers :
           /\ handlers[i].pc = "ask"
           /\ asks' = asks \cup
                  {[update |-> i, message |-> handlers[i].msg.text,
                    userID |-> "telegram_user",
                    threadID |-> FormatInt(handlers[i].msg.chat)]}
           /\ handlers' = [handlers EXCEPT ![i].pc = "pending"]
    /\ UNCHANGED <<regimeVars, pipeVars, riskVars, authVars, flowVars, bot,
                   inbox, outbox, session, history, exchange>>

\* What the PM Agent answers the bot's service: nothing, or a reply.
BotAnswers ==
    {pm \in PMAnswers :
        \/ pm.failed
        \/ /\ pm.status = 200
           /\ pm.body = Body("object",
                             ObjectOf([reply |-> JsonText("hi"),
                                       thread_id |-> JsonText("t2")]))}

\* handleMessage: the agent call returns; the error or the response is
\* sent to the chat as a message.
Reply ==
    /\ bot.running
    /\ \E i \in DOMAIN handlers, pm \in BotAnswers :
           LET call == CHOOSE a \in asks : a.update = i
               answer == AgentClientAsk(call.message, call.userID,
                                        call.threadID, pm)
           IN  /\ handlers[i].pc = "pending"
               /\ outbox' = Append(outbox,
                                   Sent(i, handlers[i].msg.chat, "message",
                                        IF answer.err
                                        THEN <<"Error: ", answer.error>>
                                        ELSE <<answer.reply>>))
               /\ handlers' = [handlers EXCEPT ![i].pc = "done"]
    /\ UNCHANGED <<regimeVars, pipeVars, riskVars, authVars, flowVars, bot,
                   inbox, asks, session, history, exchange>>

\* The number of updates the channel delivers.
NumUpdates == 2

\* A private chat and a group.
Chats == {42, 0 - 100}

\* The i-th update: without a message, or a message of a chat with or
\* without a sender.
Update(i, message, chat, from) ==
    [id |-> i, message |-> message, chat |-> chat, from |-> from,
     text |-> <<"m">> \o FormatInt(i)]

UpdateKinds ==
    {Update(0, FALSE, 0, FALSE)}
        \cup {Update(0, TRUE, c, TRUE) : c \in Chats}
        \cup {Update(0, TRUE, 0 - 100, FALSE)}

Inboxes ==
    {[i \in 1..NumUpdates |->
         Update(i, k[i].message, k[i].chat, k[i].from)] :
         k \in [1..NumUpdates -> UpdateKinds]}

\* TELEGRAM_ALLOWED_ID: unset, a chat ID in several spellings, zero, and
\* strings that do not parse.
AllowedIDs ==
    {<<>>, <<"0">>, <<"4", "2">>, <<"+", "4", "2">>, <<"-", "1", "0", "0">>,
     <<"4", "2", "x">>, MaxInt64 \o <<"0">>}

InitTelegram ==
    /\ snapshot \in {s \in Snapshots : /\ s.breadth = OversoldADR
                                       /\ s.fxCorr = 0
                                       /\ s.vol = 100 /\ s.volPrev = 100
                                       /\ s.index = s.indexMA20}
    /\ decision = NoDecision
    /\ pc = "idle"
    /\ request = [force |-> FALSE, tickers |-> {}]
    /\ calls = NoCalls
    /\ candidates = {}
    /\ tasks = <<>>
    /\ results = <<>>
    /\ composite = NoComposite
    /\ plans = <<>>
    /\ report = NoReport
    /\ plan = NoPlan
    /\ position = NoPosition
    /\ feed = NoFeed
    /\ sectors = <<>>
    /\ fundamentals = <<>>
    /\ now = 0
    /\ issued = {}
    /\ validation = NoValidation
    /\ response = NoResponse
    /\ flowAssessment = NoFlowAssessment
    /\ \E token \in {"", "123:abc"}, accepted \in BOOLEAN,
          idStr \in AllowedIDs :
           bot = StartBot(token, accepted, idStr)
    /\ inbox \in Inboxes
    /\ handlers = <<>>
    /\ outbox = <<>>
    /\ asks = {}
    /\ session = NoSession
    /\ history = <<>>
    /\ exchange = NoExchange

NextTelegram == Poll \/ SendTyping \/ CallAgent \/ Reply

SpecTelegram == InitTelegram /\ [][NextTelegram]_vars

----------------------------------------------------------------------------
(* core-gateway: the session of the CLI client                             *)
(*                                                                         *)
(* Every command is one run of the CLI, the runs one after another.  The   *)
(* session file is read, written and removed without failure; history is   *)
(* the commands run so far, each ask with what it sent and what came back. *)

\* loadThreadID: the content of the session file, "" without a file.
LoadThreadID(sess) == IF sess.exists THEN sess.data ELSE ""

\* saveThreadID: the file is written unless the thread is empty.
SaveThreadID(sess, threadID) ==
    IF threadID = "" THEN sess ELSE [exists |-> TRUE, data |-> threadID]

\* sendRequest after the request: the session a response leaves behind,
\* losing the session when the response names no thread.
AfterResponseClearing(sess, resp) ==
    IF resp.failed \/ Unmarshal(resp.body).err
           \/ StringField(Unmarshal(resp.body).result, "thread_id") = ""
    THEN [exists |-> FALSE, data |-> ""]
    ELSE SaveThreadID(sess, StringField(Unmarshal(resp.body).result,
                                        "thread_id"))

\* sendRequest after the request: nothing is saved when the request failed
\* or the body does not parse; otherwise a thread_id that is a non-empty
\* string is saved.  The status of the response is not looked at.
AfterResponse(sess, resp) ==
    IF resp.failed
    THEN sess
    ELSE IF Unmarshal(resp.body).err
    THEN sess
    ELSE LET tid == StringField(Unmarshal(resp.body).result, "thread_id")
         IN  IF tid # "" THEN SaveThreadID(sess, tid) ELSE sess

\* The number of commands run.
MaxCommands == 4

\* What can come back for a request: nothing, an error of the gateway, a
\* body that is no JSON object, and objects with any thread_id.
CliResponses ==
    {[failed |-> TRUE, status |-> 0, body |-> NoBody]}
        \cup {[failed |-> FALSE, status |-> 401,
               body |-> Body("object",
                             ObjectOf([error |-> JsonText("Invalid token")]))]}
        \cup {[failed |-> FALSE, status |-> 200, body |-> Body(t, <<>>)] :
                  t \in {"garbage", "null"}}
        \cup {[failed |-> FALSE, status |-> 200,
               body |-> Body("object",
                             ObjectOf([reply |-> JsonText("hi"),
                                       thread_id |-> t]))] :
                  t \in Members({"", "t1", "t2"})}
        \cup {[failed |-> FALSE, status |-> 502,
               body |-> Body("object",
                             ObjectOf([error |-> JsonText("PM Agent"),
                                       thread_id |-> JsonText("t2")]))]}

InitCli ==
    /\ snapshot \in {s \in Snapshots : /\ s.breadth = OversoldADR
                                       /\ s.fxCorr = 0
                                       /\ s.vol = 100 /\ s.volPrev = 100
                                       /\ s.index = s.indexMA20}
    /\ decision = NoDecision
    /\ pc = "idle"
    /\ request = [force |-> FALSE, tickers |-> {}]
    /\ calls = NoCalls
    /\ candidates = {}
    /\ tasks = <<>>
    /\ results = <<>>
    /\ composite = NoComposite
    /\ plans = <<>>
    /\ report = NoReport
    /\ plan = NoPlan
    /\ position = NoPosition
    /\ feed = NoFeed
    /\ sectors = <<>>
    /\ fundamentals = <<>>
    /\ now = 0
    /\ issued = {}
    /\ validation = NoValidation
    /\ response = NoResponse
    /\ flowAssessment = NoFlowAssessment
    /\ ClientsIdle

\* woorung ask, without WOORUNG_TOKEN: nothing is loaded or sent.
AskWithoutToken ==
    /\ Len(history) < MaxCommands
    /\ history' = Append(history, [cmd |-> "ask", sent |-> FALSE])
    /\ UNCHANGED <<regimeVars, pipeVars, riskVars, authVars, flowVars, bot,
                   inbox, handlers, outbox, asks, session, exchange>>

\* woorung ask, with a token: the stored thread is sent with the message,
\* and the thread of the response, if it has one, is stored.
AskCli ==
    /\ Len(history) < MaxCommands
    /\ \E resp \in CliResponses :
           /\ history' = Append(history,
                                [cmd |-> "ask", sent |-> TRUE,
                                 payload |-> [message |-> "hello",
                                              source |-> "cli",
                                              thread_id |->
                                                  LoadThreadID(session)],
                                 response |-> resp])
           /\ session' = AfterResponse(session, resp)
    /\ UNCHANGED <<regimeVars, pipeVars, riskVars, authVars, flowVars, bot,
                   inbox, handlers, outbox, asks, exchange>>

\* woorung reset: the session file is removed; that there is none is no
\* error.
ResetCli ==
    /\ Len(history) < MaxCommands
    /\ history' = Append(history, [cmd |-> "reset", sent |-> FALSE])
    /\ session' = [exists |-> FALSE, data |-> ""]
    /\ UNCHANGED <<regimeVars, pipeVars, riskVars, authVars, flowVars, bot,
                   inbox, handlers, outbox, asks, exchange>>

NextCli == AskWithoutToken \/ AskCli \/ ResetCli

SpecCli == InitCli /\ [][NextCli]_vars

----------------------------------------------------------------------------
(* Properties of RegimeGate.evaluate (SpecRegime)                          *)

Evaluated == decision # NoDecision

\* The volatility hard stop, restated on the snapshot: the volatility index
\* is above 1.05 times its prior value (21/20) and the index is below its
\* 20-day moving average.
VolatilityHardStop ==
    /\ 20 * snapshot.vol > 21 * snapshot.volPrev
    /\ snapshot.index < snapshot.indexMA20

\* C1: whenever the volatility index is above 1.05 times its prior value
\* and the index level is below its 20-day moving average, the decision is
\* CRASH with multiplier 0, whatever the breadth ratio and the correlation.
C1_HardStopIsCrash ==
    (Evaluated /\ VolatilityHardStop)
        => (decision.regime = "CRASH" /\ decision.multiplier = 0)

\* C1 witness: a hard stop on an oversold, decoupled market, and one with a
\* spike of exactly 1.10 times the prior value.
C1_Witness ==
    /\ Evaluated
    /\ VolatilityHardStop
    /\ snapshot.breadth < 75
    /\ snapshot.fxCorr > 20
    /\ snapshot.vol = 22 /\ snapshot.volPrev = 20
    /\ decision.regime = "CRASH"

\* The multiplier the breadth bands give: 1.0 below 75, 1.0 from 75 to 120
\* inclusive, 0.0 above 120.
BreadthBandsHold ==
    /\ snapshot.breadth < 75 => decision.multiplier = 100
    /\ (75 <= snapshot.breadth /\ snapshot.breadth <= 120)
           => decision.multiplier = 100
    /\ snapshot.breadth > 120 => decision.multiplier = 0

\* C9 as stated: the bands give the multiplier of every evaluated snapshot.
C9_Original == Evaluated => BreadthBandsHold

\* C9 amended: the bands give the multiplier of every evaluated snapshot on
\* which the volatility hard stop does not fire and whose FX/index
\* correlation is at most 0.2.
C9_BreadthBands ==
    (Evaluated /\ ~VolatilityHardStop /\ snapshot.fxCorr <= 20)
        => BreadthBandsHold

\* C9 witness: the upper boundary 120, no hard stop, correlation exactly 0.2.
C9_Witness ==
    /\ Evaluated
    /\ ~VolatilityHardStop
    /\ snapshot.fxCorr = 20
    /\ snapshot.breadth = 120
    /\ decision.multiplier = 100

----------------------------------------------------------------------------
(* Properties of runPipeline (SpecPipeline) and Aggregator.rank (SpecRank) *)

\* C2: in a run without force_analysis, once RegimeGate has returned CRASH
\* or BEAR the run is over: phase 2 was never entered, no evaluator task was
\* created or dispatched, and neither Aggregator nor RiskPlanner was called.
C2_HardStopShortCircuits ==
    (~request.force /\ decision.regime \in {"CRASH", "BEAR"})
        => /\ pc = "terminated"
           /\ calls.sectors = 0
           /\ calls.evaluators = 0
           /\ calls.aggregator = 0
           /\ calls.planner = 0
           /\ tasks = <<>>
           /\ ~composite.done
           /\ plans = <<>>

\* C2 witness: a run ended by a BEAR decision, RegimeGate called once, and
\* the caller had named tickers.
C2_Witness ==
    /\ ~request.force
    /\ request.tickers # {}
    /\ decision.regime = "BEAR"
    /\ calls.regime = 1
    /\ pc = "terminated"

FailsHardFilter(a) == a.fund = "FAIL" \/ a.flow = "LOW" \/ a.tech < 70

\* C3: no ranked candidate has fundamental verdict FAIL, flow level LOW or
\* a technical score below 70, and each such candidate is among the
\* discards with a reason.
C3_RankedPassHardFilters ==
    composite.done =>
        /\ \A i \in DOMAIN composite.ranked :
               ~FailsHardFilter(results[composite.ranked[i].ticker])
        /\ \A t \in candidates :
               FailsHardFilter(results[t])
                   => /\ t \in DOMAIN composite.discards
                      /\ composite.discards[t] # ""
                      /\ t \notin {composite.ranked[i].ticker :
                                      i \in DOMAIN composite.ranked}

\* C3 witness: three candidates ranked, and one with technical score 69,
\* fundamental PASS and flow HIGH discarded.
C3_Witness ==
    /\ composite.done
    /\ Len(composite.ranked) = 3
    /\ \E t \in candidates :
           /\ results[t] = [tech |-> 69, fund |-> "PASS", flow |-> "HIGH"]
           /\ t \in DOMAIN composite.discards

\* C4: every ACCEPT plan of the run, in the Report or planned so far, has
\* reward / risk >= 2.0, fundamental verdict PASS and a flow level other
\* than LOW, with or without force_analysis and explicit tickers.
C4_AcceptIsSound ==
    /\ \A t \in DOMAIN plans :
           plans[t].verdict = "ACCEPT"
               => /\ plans[t].target - plans[t].entry
                         >= 2 * (plans[t].entry - plans[t].stop)
                  /\ results[t].fund = "PASS"
                  /\ results[t].flow \in {"MEDIUM", "HIGH"}
    /\ report.built
           => \A i \in DOMAIN report.plans :
                  /\ report.plans[i].ticker \in DOMAIN plans
                  /\ report.plans[i] = plans[report.plans[i].ticker]

\* C4 witness: a forced run on explicit tickers in a crashing market whose
\* Report holds an ACCEPT plan, another ticker having been discarded.
C4_Witness ==
    /\ request.force
    /\ request.tickers = {660, 5930}
    /\ Regime(snapshot) = "CRASH"
    /\ report.built
    /\ Len(report.plans) = 1
    /\ DOMAIN composite.discards # {}

\* C14: in a run with an explicit ticker list and force_analysis set,
\* neither RegimeGate nor SectorScreener is called and the run is never
\* terminated by the regime; once past the gates, phase 3 works on exactly
\* the given tickers, even when the snapshot is one of a CRASH.
C14_ForcedRunSkipsGates ==
    (request.force /\ request.tickers # {})
        => /\ pc # "terminated"
           /\ calls.regime = 0
           /\ calls.sectors = 0
           /\ decision = NoDecision
           /\ sectors = <<>>
           /\ pc \notin {"regime", "sectors"}
                  => /\ candidates = request.tickers
                     /\ DOMAIN tasks =
                            {<<t, e>> : t \in request.tickers, e \in 1 .. 3}

\* C14 witness: a forced run on one given ticker, under a snapshot with the
\* volatility hard stop, with an evaluator task dispatched.
C14_Witness ==
    /\ request.force
    /\ request.tickers = {660}
    /\ 20 * snapshot.vol > 21 * snapshot.volPrev
    /\ snapshot.index < snapshot.indexMA20
    /\ pc = "deepdive"
    /\ candidates = {660}
    /\ calls.evaluators > 0

\* C15: at the end of a run every candidate that entered phase 3 is in
\* the ranked output or has a recorded, non-empty reason, also a candidate
\* that passes every hard filter and is not among the top 3.
C15_NoSilentDrop ==
    pc = "done" =>
        \A t \in candidates :
            \/ \E i \in DOMAIN report.ranked : report.ranked[i].ticker = t
            \/ /\ t \in DOMAIN composite.discards
               /\ composite.discards[t] # ""

----------------------------------------------------------------------------
(* Properties of RiskPlanner (SpecRisk)                                    *)

Planned == plan # NoPlan

\* C5: a plan whose reward (resistance - entry) is less than 2.0 times its
\* risk (entry - stop) is a REJECT with reason "R/R below threshold"; entry
\* 10000, ATR 200, resistance 12200 is accepted.
C5_RejectBelowThreshold ==
    Planned =>
        /\ (plan.target - plan.entry) < 2 * (plan.entry - plan.stop)
               => (plan.verdict = "REJECT"
                   /\ plan.reason = "R/R below threshold")
        /\ (plan.entry = 10000 /\ plan.atr = 200 /\ plan.target = 12200)
               => plan.verdict = "ACCEPT"

\* C5 witness: entry 10000, ATR 200, resistance 11000 is rejected.
C5_Witness ==
    /\ Planned
    /\ plan.entry = 10000 /\ plan.atr = 200 /\ plan.target = 11000
    /\ plan.verdict = "REJECT"

\* C6: the stop of the plan, and of the first entry opened on it, is
\* exactly entry price - 3 * ATR(14).
C6_StopIsEntryMinus3Atr ==
    /\ Planned => plan.stop = plan.entry - 3 * plan.atr
    /\ position.entries = 1
           => position.stop.num
                  = (plan.entry - 3 * plan.atr) * position.stop.den

\* C6 witness: entry 10000 and ATR 200 give stop 9400, and the first entry
\* is open.
C6_Witness ==
    /\ Planned
    /\ plan.entry = 10000 /\ plan.atr = 200 /\ plan.stop = 9400
    /\ position.entries = 1

\* What the formula gives for the position as it is: blended average entry
\* price (cost / shares) - 3 * ATR(14), as a fraction over the shares.
FormulaNum(pos) == pos.cost - 3 * pos.atr * pos.shares

\* C7: on every additional entry the new stop is the larger of the previous
\* stop and (new blended average entry price - 3 * ATR(14)); it is never
\* below the previous stop.
C7_TrailingStop ==
    [][(position.entries >= 1 /\ position'.entries = position.entries + 1)
        => LET prev == position.stop
               new == position'.stop
               fnum == FormulaNum(position')
               fden == position'.shares
           IN  /\ prev.num * new.den <= new.num * prev.den
               /\ fnum * prev.den <= prev.num * fden
                      => new.num * prev.den = prev.num * new.den
               /\ fnum * prev.den >= prev.num * fden
                      => new.num * fden = fnum * new.den]_vars

\* C7 witness: after a second entry the formula's stop lies below the stop
\* the position keeps.
C7_Witness ==
    /\ position.entries >= 2
    /\ FormulaNum(position) * position.stop.den
           < position.stop.num * position.shares

\* C8: every plan carries the schedule (0.30, 0%), (0.30, 3%), (0.40, 5%):
\* the allocations sum to 1.0 and the triggers ascend strictly.
C8_FixedSchedule ==
    Planned =>
        /\ plan.pyramiding = <<[allocation |-> 30, trigger |-> 0],
                               [allocation |-> 30, trigger |-> 3],
                               [allocation |-> 40, trigger |-> 5]>>
        /\ plan.pyramiding[1].allocation + plan.pyramiding[2].allocation
               + plan.pyramiding[3].allocation = 100
        /\ plan.pyramiding[1].trigger < plan.pyramiding[2].trigger
        /\ plan.pyramiding[2].trigger < plan.pyramiding[3].trigger

\* C8 witness: a rejected plan of the second ticker under a halved bet size.
C8_Witness ==
    /\ Planned
    /\ plan.verdict = "REJECT"
    /\ plan.ticker = 660
    /\ decision.multiplier = 50
    /\ Len(plan.pyramiding) = 3

----------------------------------------------------------------------------
(* Properties of SectorScreener.screen (SpecSectors)                       *)

Screened == calls.sectors > 0

\* The relative-strength score of the i-th sector supplied, in tenths:
\* 0.5, 0.3 and 0.2 times its 1-week, 1-month and 3-month excess return.
SuppliedScore(i) ==
    5 * (feed.sectorSeries[i].ret1w - feed.benchmark.ret1w)
        + 3 * (feed.sectorSeries[i].ret1m - feed.benchmark.ret1m)
        + 2 * (feed.sectorSeries[i].ret3m - feed.benchmark.ret3m)

SuppliedAlpha1m(i) == feed.sectorSeries[i].ret1m - feed.benchmark.ret1m

\* The total order on the sectors supplied: score descending, then 1-month
\* alpha descending, then identifier ascending.
SuppliedBefore(i, j) ==
    \/ SuppliedScore(i) > SuppliedScore(j)
    \/ /\ SuppliedScore(i) = SuppliedScore(j)
       /\ SuppliedAlpha1m(i) > SuppliedAlpha1m(j)
    \/ /\ SuppliedScore(i) = SuppliedScore(j)
       /\ SuppliedAlpha1m(i) = SuppliedAlpha1m(j)
       /\ feed.sectorSeries[i].id < feed.sectorSeries[j].id

\* C11: the sectors screen returns are the first min(3, n) of the n sectors
\* supplied under the total order (score descending, 1-month alpha
\* descending, identifier ascending): never more than 3, the k-th returned
\* is the sector that exactly k - 1 of the supplied sectors precede, so
\* the result is sorted and the same in whatever order they were supplied.
C11_ScreenTopThree ==
    Screened =>
        LET n == Len(feed.sectorSeries)
        IN  /\ Len(sectors) <= 3
            /\ Len(sectors) = IF n < 3 THEN n ELSE 3
            /\ \A k \in DOMAIN sectors :
                   \E i \in 1 .. n :
                       /\ sectors[k].id = feed.sectorSeries[i].id
                       /\ sectors[k].score = SuppliedScore(i)
                       /\ Cardinality({j \in 1 .. n : SuppliedBefore(j, i)})
                              = k - 1
            /\ \A k \in DOMAIN sectors : \A l \in DOMAIN sectors :
                   k < l =>
                       \/ sectors[k].score > sectors[l].score
                       \/ /\ sectors[k].score = sectors[l].score
                          /\ sectors[k].alpha1m > sectors[l].alpha1m
                       \/ /\ sectors[k].score = sectors[l].score
                          /\ sectors[k].alpha1m = sectors[l].alpha1m
                          /\ sectors[k].id < sectors[l].id

\* C11 witness: four sectors supplied in descending order of identifier,
\* all with the same score; the first two returned differ in their 1-month
\* alpha, the last two only in their identifier.
C11_Witness ==
    /\ Screened
    /\ Len(feed.sectorSeries) = 4
    /\ \A i \in 1 .. 3 : feed.sectorSeries[i].id > feed.sectorSeries[i + 1].id
    /\ Len(sectors) = 3
    /\ sectors[1].score = sectors[3].score
    /\ sectors[1].alpha1m > sectors[2].alpha1m
    /\ sectors[2].alpha1m = sectors[3].alpha1m
    /\ sectors[2].id < sectors[3].id

----------------------------------------------------------------------------
(* Properties of FundamentalEvaluator in a run (SpecFundamental)           *)

\* The candidates whose fundamental evaluator returned on a financial
\* record meeting fewer than 4 of the nine criteria.
LowFScore ==
    {t \in candidates :
        /\ tasks[<<t, 2>>] = "done"
        /\ fundamentals[t].record.absent = {}
        /\ Cardinality(fundamentals[t].record.met) < 4}

\* C12: a candidate whose F-score is below 4 is never in the ranked
\* shortlist, never has an ACCEPT plan and is never in the Report, whatever
\* its technical score, flow level, valuation ratios and reward/risk.
C12_LowFScoreExcluded ==
    \A t \in LowFScore :
        /\ \A i \in DOMAIN composite.ranked : composite.ranked[i].ticker # t
        /\ t \in DOMAIN plans => plans[t].verdict # "ACCEPT"
        /\ report.built =>
               /\ \A i \in DOMAIN report.ranked : report.ranked[i].ticker # t
               /\ \A i \in DOMAIN report.plans : report.plans[i].ticker # t

\* C12 witness: F-score 3 with technical score 90, flow HIGH, relative
\* P/E and PEG under their limits and no disclosure risk, discarded.
C12_Witness ==
    /\ composite.done
    /\ \E t \in LowFScore :
           /\ Cardinality(fundamentals[t].record.met) = 3
           /\ fundamentals[t].record.absent = {}
           /\ fundamentals[t].record.relPer < 80
           /\ fundamentals[t].record.peg < 150
           /\ fundamentals[t].record.disclosures = {}
           /\ results[t].tech = 90
           /\ results[t].flow = "HIGH"
           /\ t \in DOMAIN composite.discards

----------------------------------------------------------------------------
(* Properties of runPipeline on given inputs (SpecIdempotent)              *)

\* What the task reads off its bundle, when the bundle has it.
Given(id) == CHOOSE v \in feed.returns[id] : TRUE

\* The Report the inputs determine: the phases run one after the other,
\* each evaluator of each candidate in turn.
DeterminedReport ==
    LET dec == IF request.force THEN NoDecision ELSE Evaluate(snapshot)
        sec == IF request.tickers # {} THEN <<>>
               ELSE Screen(feed.sectorSeries, feed.benchmark)
        cands == IF request.tickers # {} THEN request.tickers
                 ELSE CandidatesOf(sec, feed.members)
        whole == {t \in cands : \A e \in 1 .. 3 : <<t, e>> \notin feed.failing}
        res == [t \in whole |->
                   [tech |-> Given(<<t, 1>>),
                    fund |-> FundamentalVerdict(Given(<<t, 2>>)),
                    flow |-> Given(<<t, 3>>)]]
        comp == Rank(res)
        ctx(t) == CHOOSE c \in feed.contexts[t] : TRUE
        pl == [t \in RankedTickers(comp) |->
                  Plan(t, ctx(t).entry, ctx(t).resistance, ctx(t).atr)]
    IN  BuildReport(dec, sec, comp, pl)

TimedOut == \E id \in DOMAIN tasks : tasks[id] = "timeout"

----------------------------------------------------------------------------
(* More properties of RiskPlanner (SpecRisk)                               *)

\* C16: the stop of every plan is strictly below its entry price, and the
\* stop of a position, also after it has been trailed up on a pyramided
\* entry, is strictly below the position's average entry price
\* (cost / shares), for every ATR(14) the planner is given.
C16_StopBelowEntry ==
    /\ Planned => plan.stop < plan.entry
    /\ position.entries >= 1
           => position.stop.num * position.shares
                  < position.cost * position.stop.den

----------------------------------------------------------------------------
(* Properties of the core-gateway (SpecGateway, SpecJwt)                   *)

Served == response.status # 0

\* The header has exactly the form "Bearer <token>": the word Bearer, one
\* space, and one more part without a space in it.
BearerForm(h) ==
    /\ Len(h) >= 2
    /\ h[1] = Word("Bearer")
    /\ h[2] = Space
    /\ \A i \in 3 .. Len(h) : h[i] # Space

\* The part of a header of that form after "Bearer ".
BearerToken(h) == SubSeq(h, 3, Len(h))

\* C17: a request behind AuthMiddleware reaches the handler only if its
\* Authorization header has exactly the form "Bearer <token>" and
\* ValidateToken accepts the token; in every other case the response is
\* 401 and the handler is not run; when the handler runs, userID and role
\* are those of the token's claims.
C17_OnlyValidBearerReachesHandler ==
    Served =>
        LET accepted ==
                /\ BearerForm(response.header)
                /\ ~ValidateToken(Gateway, BearerToken(response.header),
                                  response.at).err
        IN  /\ response.ran <=> accepted
            /\ ~response.ran => response.status = 401
            /\ response.ran =>
                   LET claims == ValidateToken(Gateway,
                                               BearerToken(response.header),
                                               response.at).claims
                   IN  /\ response.userID = claims.user_id
                       /\ response.role = claims.role

\* C17 witness: the handler ran for user_123 / admin, a second or more
\* after the token was generated.
C17_Witness ==
    /\ Served
    /\ response.ran
    /\ response.status = 200
    /\ response.userID = <<"user_123">>
    /\ response.role = <<"admin">>
    /\ \E c \in issued : response.at >= c.at + Resolution

Validated == validation.called

\* The tokens GenerateToken of a service with the gateway's secret returned.
OwnTokens == {c \in issued : c.service.secretKey = "secret"}

RoundTrips(c) ==
    /\ ~validation.result.err
    /\ validation.result.claims.user_id = c.userID
    /\ validation.result.claims.role = c.role
    /\ validation.result.claims.iss = <<"woorung-gaksi">>

NotOwnToken == \A c \in OwnTokens : validation.input # c.token

\* C18 as stated: the token of GenerateToken(userID, role), validated
\* before the expiry has passed since it was generated, gives claims with
\* the same UserID, Role and Issuer "woorung-gaksi", for every userID and
\* role; a string that is not such a token is rejected with no claims.
C18_Original ==
    Validated =>
        /\ \A c \in OwnTokens :
               (validation.input = c.token
                    /\ validation.at < c.at + c.service.expiry)
                   => RoundTrips(c)
        /\ NotOwnToken
               => (validation.result.err /\ validation.result.claims = NoClaims)

\* C18 amended: the same, for every userID and role that are valid UTF-8
\* and for a validation before the expiry time (the time of generation plus
\* the expiry), truncated to the whole second, has passed.
C18_RoundTrip ==
    Validated =>
        /\ \A c \in OwnTokens :
               (/\ validation.input = c.token
                /\ \A i \in DOMAIN c.userID : c.userID[i] # InvalidByte
                /\ \A i \in DOMAIN c.role : c.role[i] # InvalidByte
                /\ validation.at < NumericDate(c.at + c.service.expiry))
                   => RoundTrips(c)
        /\ NotOwnToken
               => (validation.result.err /\ validation.result.claims = NoClaims)

\* C18 witness: user_123 / admin validated a second after the token was
\* generated, within its expiry of a second and a tick.
C18_Witness ==
    /\ Validated
    /\ \E c \in OwnTokens :
           /\ validation.input = c.token
           /\ c.userID = <<"user_123">>
           /\ c.role = <<"admin">>
           /\ c.service.expiry = Resolution + 1
           /\ validation.at = c.at + Resolution
           /\ RoundTrips(c)

----------------------------------------------------------------------------
(* Properties of phase 3 and the join (SpecPipeline)                       *)

Joined == calls.aggregator > 0

\* C19: Aggregator.rank is a join point: once it has started, every
\* evaluator task of phase 3 has completed or failed, or was given up by
\* the overall pipeline timeout; none is waiting or running, and each
\* ranked candidate has the results of all three of its evaluators.
C19_AggregatorJoins ==
    Joined =>
        /\ \A id \in TaskIds(candidates) :
               tasks[id] \in {"done", "failed", "timeout"}
        /\ \A i \in DOMAIN composite.ranked :
               \A e \in 1 .. Len(Evaluators) :
                   tasks[<<composite.ranked[i].ticker, e>>] = "done"

\* C19 witness: the aggregator ranked a candidate in a run where one
\* evaluator failed and the timeout gave up another.
C19_Witness ==
    /\ Joined
    /\ composite.ranked # <<>>
    /\ \E id \in TaskIds(candidates) : tasks[id] = "failed"
    /\ \E id \in TaskIds(candidates) : tasks[id] = "timeout"

\* The candidates with an evaluator that failed.
FailedCandidates ==
    {t \in candidates :
        \E e \in 1 .. Len(Evaluators) : tasks[<<t, e>>] = "failed"}

\* A step in which an evaluator fails.
EvaluatorFails ==
    \E id \in DOMAIN tasks :
        /\ tasks[id] = "running"
        /\ id \in DOMAIN tasks'
        /\ tasks'[id] = "failed"

\* Once the aggregator has run: a candidate with a failed evaluator is not
\* ranked and has a recorded reason; unless the timeout fired, every other
\* candidate has the results of its three evaluators; and ranking and
\* discards of the others are those of a run that never dispatched the
\* failed candidates.
FailuresExcluded ==
    Joined =>
        /\ \A t \in FailedCandidates :
               /\ t \notin RankedTickers(composite)
               /\ t \in DOMAIN composite.discards
               /\ composite.discards[t] = "evaluator failed"
        /\ ~TimedOut =>
               \A t \in candidates \ FailedCandidates :
                   \A e \in 1 .. Len(Evaluators) : tasks[<<t, e>>] = "done"
        /\ LET without == Aggregated(candidates \ FailedCandidates,
                                     tasks, results)
           IN  /\ composite.ranked = without.ranked
               /\ \A t \in candidates \ FailedCandidates :
                      /\ (t \in DOMAIN composite.discards)
                             <=> (t \in DOMAIN without.discards)
                      /\ t \in DOMAIN composite.discards
                             => composite.discards[t] = without.discards[t]

\* The failure of an evaluator changes the state of that task only: the
\* other tasks, the results so far and the phase of the run stay as they
\* are.
FailureTouchesOneTask ==
    EvaluatorFails =>
        /\ pc' = pc
        /\ pc = "deepdive"
        /\ results' = results
        /\ candidates' = candidates
        /\ composite' = composite
        /\ Cardinality({id \in DOMAIN tasks : tasks'[id] # tasks[id]}) = 1

\* C20: failure isolation in phase 3: when an evaluator of candidate A
\* fails, A is excluded from the ranking with a recorded reason, the
\* evaluators of the other candidates are not disturbed and run to
\* completion, the ranking of the others is the same as if A had never
\* been dispatched, and the run goes on.
C20_FailureIsolated == []FailuresExcluded /\ [][FailureTouchesOneTask]_vars

\* C20 witness: a Report in which one candidate was excluded because an
\* evaluator failed and the other, all of whose evaluators returned, is
\* ranked.
C20_Witness ==
    /\ report.built
    /\ ~TimedOut
    /\ FailedCandidates # {}
    /\ \A t \in FailedCandidates : composite.discards[t] = "evaluator failed"
    /\ \E i \in DOMAIN report.ranked :
           /\ report.ranked[i].ticker \in candidates \ FailedCandidates
           /\ \A e \in 1 .. Len(Evaluators) :
                  tasks[<<report.ranked[i].ticker, e>>] = "done"

----------------------------------------------------------------------------
(* Properties of the overall pipeline timeout (SpecTimeout)                *)

\* The candidates with an evaluator the timeout gave up.
TimedOutCandidates ==
    {t \in candidates :
        \E e \in 1 .. Len(Evaluators) : tasks[<<t, e>>] = "timeout"}

\* After the timeout the run is in phase 3 or later, never ended without a
\* Report; once the aggregator has run, a candidate with a pending
\* evaluator is excluded with a reason and the ranking is that of the
\* candidates that finished; the Report is built from that ranking.
TimeoutExcludes ==
    TimedOut =>
        /\ pc \in {"deepdive", "plan", "done"}
        /\ Joined =>
               /\ \A t \in TimedOutCandidates :
                      /\ t \notin RankedTickers(composite)
                      /\ t \in DOMAIN composite.discards
                      /\ composite.discards[t] \in {"timed out",
                                                    "evaluator failed"}
               /\ composite.ranked =
                      Rank([t \in Complete(candidates, tasks) |->
                               results[t]]).ranked
        /\ pc = "done" =>
               /\ report.built
               /\ report.ranked = composite.ranked

\* C21: when the overall pipeline timeout fires during phase 3, every
\* candidate with a still-pending evaluator is excluded and the run goes on
\* through aggregation and risk planning to a Report built from the
\* candidates that finished; the timeout is never fatal, and every run that
\* has passed phases 1-2 eventually ends with a Report.
C21_TimeoutNotFatal ==
    /\ []TimeoutExcludes
    /\ (pc = "deepdive") ~> report.built

\* C21 witness: a Report of a run in which the timeout fired while one
\* candidate had finished and the other had not: the first is ranked, the
\* second excluded as timed out.
C21_Witness ==
    /\ report.built
    /\ TimedOut
    /\ report.ranked # <<>>
    /\ \E t \in TimedOutCandidates : composite.discards[t] = "timed out"

----------------------------------------------------------------------------
(* Properties of the decoupling check (SpecRegime)                         *)

\* The snapshot with the correlation of the historical norm in place of
\* its own.
Coupled(s) == [s EXCEPT !.fxCorr = -100]

\* The multiplier is the one of the breadth rule, multiplied by 0.5 when
\* the correlation is above 0.2.
BreadthRuleHalved ==
    decision.multiplier =
        IF snapshot.fxCorr > 20
        THEN BreadthMultiplier(snapshot.breadth) \div 2
        ELSE BreadthMultiplier(snapshot.breadth)

\* The correlation leaves the decision enum alone, and the multiplier is
\* within [0.0, 1.0].
EnumKeptInRange ==
    /\ decision.regime = Evaluate(Coupled(snapshot)).regime
    /\ decision.multiplier \in 0 .. 100

\* C22 as stated: with a correlation above 0.2 the multiplier of the
\* breadth rule is multiplied by 0.5, otherwise left as is; the enum is
\* not changed and the multiplier stays within [0.0, 1.0].
C22_Original == Evaluated => (BreadthRuleHalved /\ EnumKeptInRange)

\* C22 amended: the same when the volatility hard stop does not fire; when
\* it fires the multiplier is 0 whatever the breadth and the correlation.
C22_DecouplingHalves ==
    Evaluated =>
        /\ ~VolatilityHardStop => BreadthRuleHalved
        /\ VolatilityHardStop => decision.multiplier = 0
        /\ EnumKeptInRange

\* C22 witness: a decoupled market below the overbought band without a
\* hard stop: the bet size is halved to 0.5 and the market is not BEAR or
\* CRASH.
C22_Witness ==
    /\ Evaluated
    /\ ~VolatilityHardStop
    /\ snapshot.fxCorr > 20
    /\ decision.multiplier = 50
    /\ decision.regime \in {"NORMAL", "BULL"}

----------------------------------------------------------------------------
(* Properties of FundamentalEvaluator.assess (SpecFundamental)             *)

\* The candidates whose fundamental evaluator has returned.
FundamentallyAssessed == {t \in candidates : tasks[<<t, 2>>] = "done"}

\* A blacklist category disclosed within the trailing 6 months.
BlacklistInWindow(f) ==
    \E d \in f.disclosures :
        /\ d.category \in {"unfaithful disclosure", "management issue",
                            "embezzlement", "breach of duty", "audit opinion"}
        /\ d.age <= 6

\* C23: the verdict is PASS only if the F-score is at least 7, relative
\* P/E is below 0.8, PEG is below 1.5 and no blacklist disclosure lies in
\* the trailing 6 months; a blacklist disclosure gives FAIL whatever the
\* F-score and the valuation; a convertible-bond overhang of 5% or more
\* adds a warning and leaves the verdict as it is without the overhang.
C23_PassOnlyIfAllHold ==
    \A t \in FundamentallyAssessed :
        LET a == fundamentals[t]
            f == fundamentals[t].record
        IN  /\ results[t].fund = a.verdict
            /\ a.verdict \in {"PASS", "FAIL"}
            /\ a.verdict = "PASS" =>
                   /\ f.absent = {}
                   /\ Cardinality(f.met) >= 7
                   /\ f.relPer < 80
                   /\ f.peg < 150
                   /\ ~BlacklistInWindow(f)
            /\ BlacklistInWindow(f) => a.verdict = "FAIL"
            /\ ("convertible-bond overhang" \in a.warnings)
                   <=> f.overhang >= 5
            /\ a.verdict = Assess([f EXCEPT !.overhang = 0]).verdict

\* C23 witness: F-score 8, relative P/E and PEG under their limits, a
\* blacklist disclosure older than the window and an overhang of 5%: PASS
\* with a warning.
C23_Witness ==
    \E t \in FundamentallyAssessed :
        /\ fundamentals[t].verdict = "PASS"
        /\ Cardinality(fundamentals[t].record.met) = 8
        /\ fundamentals[t].record.overhang = 5
        /\ fundamentals[t].warnings = {"convertible-bond overhang"}
        /\ \E d \in fundamentals[t].record.disclosures :
               d.category = "embezzlement" /\ d.age > 6

----------------------------------------------------------------------------
(* Properties of FlowEvaluator.assess (SpecFlow)                           *)

\* The signals of the bundle assessed, read off the bundle: the program
\* net-buy slope is positive; foreign / institutional buy volume is more
\* than twice the retail buy volume; on 3 or more of the trailing 5
\* sessions foreign or institutional net flow was positive.
PositiveSignals ==
    LET f == flowAssessment.bundle
    IN  (IF f.slope > 0 THEN 1 ELSE 0)
            + (IF f.instBuy > 2 * f.retailBuy THEN 1 ELSE 0)
            + (IF Cardinality({i \in 1 .. 5 : \/ f.days[i].foreign > 0
                                              \/ f.days[i].inst > 0}) >= 3
               THEN 1 ELSE 0)

\* C24: FlowEvaluator.assess returns HIGH exactly when all three signals
\* are positive, MEDIUM exactly when two of them are, and LOW when one or
\* none is.
C24_FlowLevelBySignals ==
    flowAssessment.assessed =>
        /\ Len(flowAssessment.bundle.days) = 5
        /\ flowAssessment.level \in {"LOW", "MEDIUM", "HIGH"}
        /\ (flowAssessment.level = "HIGH") <=> (PositiveSignals = 3)
        /\ (flowAssessment.level = "MEDIUM") <=> (PositiveSignals = 2)
        /\ (flowAssessment.level = "LOW") <=> (PositiveSignals <= 1)

\* C24 witness: an upward slope and 3 accumulation days, with foreign /
\* institutional buy volume exactly twice the retail volume: two signals,
\* MEDIUM.
C24_Witness ==
    /\ flowAssessment.assessed
    /\ flowAssessment.bundle.slope > 0
    /\ flowAssessment.bundle.instBuy = 2 * flowAssessment.bundle.retailBuy
    /\ flowAssessment.accumulationDays = 3
    /\ flowAssessment.level = "MEDIUM"

----------------------------------------------------------------------------
(* Properties of the ranking (SpecArrivals)                                *)

\* The technical score the bundle of a candidate gives.
GivenTech(t) == CHOOSE v \in feed.returns[<<t, 1>>] : TRUE

\* The candidates that pass the hard filters.
Survivors ==
    {t \in candidates : /\ results[t].fund = "PASS"
                        /\ GivenTech(t) >= 70
                        /\ results[t].flow \in {"MEDIUM", "HIGH"}}

\* 0.5 * technical + 0.3 * flow (HIGH 100, MEDIUM 50) + 0.2 * fundamental
\* (PASS 100), in tenths of a point.
CompositeOf(t) ==
    5 * GivenTech(t)
        + 3 * (IF results[t].flow = "HIGH" THEN 100 ELSE 50)
        + 2 * 100

\* Composite descending, equal composites by ticker.
OrderedBefore(t, u) ==
    \/ CompositeOf(t) > CompositeOf(u)
    \/ CompositeOf(t) = CompositeOf(u) /\ t < u

\* C25: the candidates that pass the hard filters are ordered by composite
\* = 0.5 * technical + 0.3 * flow + 0.2 * fundamental, descending, equal
\* composites by ticker, and at most the first 3 of that order are
\* returned, whatever the order in which the evaluator results arrived.
C25_RankedByComposite ==
    composite.done =>
        /\ Len(composite.ranked) =
               IF Cardinality(Survivors) < 3 THEN Cardinality(Survivors) ELSE 3
        /\ \A i \in DOMAIN composite.ranked :
               /\ composite.ranked[i].ticker \in Survivors
               /\ composite.ranked[i].score =
                      CompositeOf(composite.ranked[i].ticker)
               /\ \A j \in DOMAIN composite.ranked :
                      i < j => OrderedBefore(composite.ranked[i].ticker,
                                             composite.ranked[j].ticker)
               /\ \A t \in Survivors \ RankedTickers(composite) :
                      OrderedBefore(composite.ranked[i].ticker, t)

\* C25 witness: four candidates pass the filters, two of them with equal
\* composites at the head of the ranking and one with a lower composite
\* left out of the three returned.
C25_Witness ==
    /\ composite.done
    /\ Cardinality(Survivors) >= 4
    /\ Len(composite.ranked) = 3
    /\ composite.ranked[1].score = composite.ranked[2].score
    /\ composite.ranked[2].score > composite.ranked[3].score
    /\ \E t \in Survivors \ RankedTickers(composite) :
           CompositeOf(t) < composite.ranked[3].score

----------------------------------------------------------------------------
(* Properties of FundamentalEvaluator on incomplete bundles (SpecBundles)  *)

\* The financial record in the bundle of a candidate.
GivenRecord(t) == CHOOSE f \in feed.returns[<<t, 2>>] : TRUE

\* The candidates assessed on a record that lacks an input of the F-Score.
Insufficient ==
    {t \in candidates : /\ tasks[<<t, 2>>] = "done"
                        /\ GivenRecord(t).absent # {}}

\* A candidate whose record lacks an input has no F-score and fails with
\* reason "insufficient data"; it is not ranked and is among the discards;
\* the run goes on and the records of the other candidates are assessed:
\* the others are ranked as they are without it.
InsufficientFails ==
    /\ pc \in {"deepdive", "plan", "done"}
    /\ \A t \in Insufficient :
           /\ fundamentals[t].record = GivenRecord(t)
           /\ ~fundamentals[t].computed
           /\ fundamentals[t].verdict = "FAIL"
           /\ fundamentals[t].reason = "insufficient data"
           /\ results[t].fund = "FAIL"
           /\ Joined =>
                  /\ t \notin RankedTickers(composite)
                  /\ t \in DOMAIN composite.discards
                  /\ composite.discards[t] # ""
    /\ Joined =>
           /\ \A id \in TaskIds(candidates) : tasks[id] = "done"
           /\ composite.ranked =
                  Rank([t \in candidates \ Insufficient |-> results[t]]).ranked

\* The step in which a record turns out to lack an input changes the
\* assessment of that candidate only and leaves the run in phase 3.
InsufficientIsLocal ==
    \A t \in candidates :
        (t \notin Insufficient /\ t \in Insufficient')
            => /\ pc' = pc
               /\ \A u \in candidates \ {t} :
                      /\ results'[u] = results[u]
                      /\ fundamentals'[u] = fundamentals[u]
                      /\ \A e \in 1 .. Len(Evaluators) :
                             tasks'[<<u, e>>] = tasks[<<u, e>>]

\* C26: if an input of the 9 F-score tests is absent from a candidate's
\* bundle, no F-score is computed from the remaining fields: the candidate
\* fails fundamental assessment with reason "insufficient data", and the
\* evaluation of the other candidates goes on.
C26_InsufficientData == []InsufficientFails /\ [][InsufficientIsLocal]_vars

\* C26 witness: a Report in which the candidate whose record lacks the
\* input of one criterion and meets the other eight is discarded, and the
\* candidate with the complete record is ranked.
C26_Witness ==
    /\ report.built
    /\ \E t \in Insufficient :
           /\ Cardinality(GivenRecord(t).met) = 8
           /\ fundamentals[t].reason = "insufficient data"
           /\ t \in DOMAIN composite.discards
    /\ \E u \in candidates \ Insufficient :
           /\ fundamentals[u].verdict = "PASS"
           /\ u \in RankedTickers(composite)

----------------------------------------------------------------------------
(* Properties of AgentClient.Ask and Handler.Ask (SpecAsk)                 *)

AskServed == exchange.served

\* The PM Agent answered 200 with a body that is a JSON object or null.
PMSucceeds(pm) ==
    ~pm.failed /\ pm.status = 200 /\ pm.body.text \in {"object", "null"}

\* The answer carries a thread_id that is a non-empty string.
NamesThread(pm) ==
    /\ pm.body.text = "object"
    /\ "thread_id" \in DOMAIN pm.body.object
    /\ pm.body.object["thread_id"].type = "string"
    /\ pm.body.object["thread_id"].value # ""

\* The request body is a JSON object with a non-empty message and nothing
\* but strings (or null) under source and thread_id.
BindsWithMessage(body) ==
    /\ body.text = "object"
    /\ "message" \in DOMAIN body.object
    /\ body.object["message"].type = "string"
    /\ body.object["message"].value # ""
    /\ \A k \in DOMAIN body.object : body.object[k].type \in {"string", "null"}

\* The thread of the request as the handler passes it on.
CallerThread(body) ==
    IF "thread_id" \in DOMAIN body.object
           /\ body.object["thread_id"].type = "string"
    THEN body.object["thread_id"].value
    ELSE ""

ClientKeepsThread ==
    LET a == exchange.answer
        pm == exchange.pm
    IN  a.called =>
            /\ a.call.thread_id = CallerThread(exchange.body)
            /\ a.call.user_id = exchange.userID
            /\ a.call.message = exchange.body.object["message"].value
            /\ IF PMSucceeds(pm)
               THEN /\ ~a.result.err
                    /\ a.result.threadID =
                           IF NamesThread(pm)
                           THEN pm.body.object["thread_id"].value
                           ELSE a.call.thread_id
               ELSE /\ a.result.err
                    /\ a.result.reply = ""
                    /\ a.result.threadID = a.call.thread_id

HandlerAnswers ==
    LET a == exchange.answer
    IN  IF ~BindsWithMessage(exchange.body)
        THEN ~a.called /\ a.status = 400
        ELSE /\ a.called
             /\ IF a.result.err
                THEN a.status = 502 /\ DOMAIN a.json = {"error"}
                ELSE /\ a.status = 200
                     /\ a.json = [reply |-> a.result.reply,
                                  thread_id |-> a.result.threadID]

\* C29: AgentClient.Ask returns, on success, the PM Agent's thread_id when
\* that is a non-empty string and otherwise the caller's threadID, and on
\* every error path an empty reply, an error and the caller's threadID;
\* Handler.Ask calls the service only for a body that binds with a message
\* (400 otherwise), answers 502 on a service error and 200 with reply and
\* thread_id on success.
C29_AskKeepsThread == AskServed => ClientKeepsThread /\ HandlerAnswers

\* A request in a thread whose call fails: 502, the thread kept.
C29_Witness ==
    /\ AskServed
    /\ exchange.answer.called
    /\ exchange.answer.status = 502
    /\ exchange.answer.call.thread_id # ""
    /\ exchange.answer.result.threadID = exchange.answer.call.thread_id

----------------------------------------------------------------------------
(* Properties of the Telegram bot (SpecTelegram)                           *)

\* The chats something was done for: a handler started, the agent called,
\* a chat action or a message sent.
ChatsServed ==
    {handlers[i].msg.chat : i \in DOMAIN handlers}
        \cup {outbox[k].chat : k \in DOMAIN outbox}

Whitelisted ==
    bot.allowedChatID # 0 =>
        /\ ChatsServed \subseteq {bot.allowedChatID}
        /\ \A a \in asks : a.update \in DOMAIN handlers

\* A string is a decimal integer: an optional sign, then one digit or more.
DecimalInteger(s) ==
    \E sign \in {<<>>, <<"+">>, <<"-">>} :
        \E n \in 1..Len(s) :
            /\ Len(s) = Len(sign) + n
            /\ SubSeq(s, 1, Len(sign)) = sign
            /\ \A i \in (Len(sign) + 1)..Len(s) :
                   s[i] \in {Digits[d] : d \in DOMAIN Digits}

\* The allowed chat is 0 when the variable is unset or no integer, and the
\* chat the variable names in plain decimal.
AllowedFromEnv ==
    /\ (bot.env = <<>> \/ ~DecimalInteger(bot.env)) => bot.allowedChatID = 0
    /\ \A c \in Chats :
           bot.running /\ bot.env = FormatInt(c) => bot.allowedChatID = c

\* With no chat allowed in particular, a round of the loop that takes a
\* message starts its handler.
OpenToAll ==
    (bot.running /\ bot.allowedChatID = 0 /\ inbox # <<>> /\ inbox' # inbox
         /\ Head(inbox).message)
        => /\ Head(inbox).id \in DOMAIN handlers'
           /\ handlers'[Head(inbox).id].msg = Head(inbox)

\* C27: with a non-zero allowed chat ID a message from another chat causes
\* no call of the agent service and no chat action or message to that chat;
\* with allowed ID 0 (TELEGRAM_ALLOWED_ID unset or no integer) the messages
\* of every chat are handled.
C27_Whitelist == [](Whitelisted /\ AllowedFromEnv) /\ [][OpenToAll]_vars

\* A message of another chat was turned away and one of the allowed chat
\* answered.
C27_Witness ==
    /\ bot.allowedChatID # 0
    /\ bot.denied # {}
    /\ inbox = <<>>
    /\ \E i \in DOMAIN handlers : handlers[i].pc = "done"

\* The loop can take the next update whatever the handlers are doing.
LoopNeverWaits == bot.running /\ inbox # <<>> => ENABLED Poll

\* The thread of every agent call is the chat ID in decimal: the numeral
\* without a plus sign or leading zeros that reads as the chat ID.
ThreadIsChat ==
    \A a \in asks :
        /\ a.userID = "telegram_user"
        /\ a.message = handlers[a.update].msg.text
        /\ ~ParseInt(a.threadID).err
        /\ ParseInt(a.threadID).value = handlers[a.update].msg.chat
        /\ a.threadID[1] # "+"
        /\ Len(a.threadID) > 1 => a.threadID[1] # "0"
        /\ Len(a.threadID) > 2 => ~(a.threadID[1] = "-" /\ a.threadID[2] = "0")

\* Every handler does the work of one message of its own.
OwnTask ==
    \A i \in DOMAIN handlers :
        /\ handlers[i].msg.id = i
        /\ Cardinality({a \in asks : a.update = i})
               = IF handlers[i].pc \in {"pending", "done"} THEN 1 ELSE 0

\* C30: the update loop never waits for a handler; every accepted message
\* is handled in a task of its own that calls the agent with the decimal
\* chat ID as the thread, so a later message is dispatched while an earlier
\* call is pending and the replies to two messages of one chat come in
\* either order.
C30_LoopNeverWaits == LoopNeverWaits /\ ThreadIsChat /\ OwnTask

\* The later of two messages of one chat is answered while the call for the
\* earlier one is still pending.
C30_Witness ==
    \E i, j \in DOMAIN handlers :
        /\ i < j
        /\ handlers[i].msg.chat = handlers[j].msg.chat
        /\ handlers[i].pc = "pending"
        /\ handlers[j].pc = "done"
        /\ \E k \in DOMAIN outbox :
               outbox[k].update = j /\ outbox[k].kind = "message"

----------------------------------------------------------------------------
(* Properties of the CLI session (SpecCli)                                 *)

\* The command is an ask whose response parsed and carries a thread_id
\* that is a non-empty string.
ThreadReturned(e) ==
    /\ e.cmd = "ask"
    /\ e.sent
    /\ ~e.response.failed
    /\ e.response.body.text = "object"
    /\ "thread_id" \in DOMAIN e.response.body.object
    /\ e.response.body.object["thread_id"].type = "string"
    /\ e.response.body.object["thread_id"].value # ""

ReturnsThread(k) == ThreadReturned(history[k])

\* The asks before the k-th command that returned a thread, with no reset
\* between them and the k-th.
ThreadsBefore(k) ==
    {j \in 1..(k - 1) :
        /\ ReturnsThread(j)
        /\ \A r \in (j + 1)..(k - 1) : history[r].cmd # "reset"}

\* The thread the k-th command is to send.
ThreadDue(k) ==
    IF ThreadsBefore(k) = {}
    THEN ""
    ELSE LET j == CHOOSE j \in ThreadsBefore(k) :
                      \A i \in ThreadsBefore(k) : i <= j
         IN  history[j].response.body.object["thread_id"].value

SendsLatestThread ==
    \A k \in DOMAIN history :
        history[k].sent => history[k].payload.thread_id = ThreadDue(k)

\* An ask that gets no thread back leaves the session file as it is.
NoThreadNoChange ==
    (Len(history') = Len(history) + 1
         /\ history'[Len(history')].cmd = "ask"
         /\ ~ThreadReturned(history'[Len(history')]))
        => session' = session

\* C28: across any sequence of ask and reset commands the thread_id an ask
\* sends is the most recent non-empty thread_id returned in a parsed
\* response of an earlier ask since the last reset, or "" if there is none;
\* a response with a missing or empty thread_id, an unparsable response and
\* a failed request leave the stored session unchanged.
C28_SessionThread == []SendsLatestThread /\ [][NoThreadNoChange]_vars

\* A thread is returned, the next request fails, and the ask after that
\* still sends the thread.
C28_Witness ==
    \E i, j, k \in DOMAIN history :
        /\ i < j /\ j < k
        /\ ReturnsThread(i)
        /\ history[j].cmd = "ask" /\ history[j].sent
        /\ history[j].response.failed
        /\ history[k].sent
        /\ history[k].payload.thread_id # ""
        /\ history[k].payload.thread_id = ThreadDue(k)

=============================================================================
